---------------------------- MODULE Spec2Model ----------------------------
(***************************************************************************)
(* geo-narrator: the two views of the application as state machines.       *)
(*                                                                         *)
(*   ConversationView (src/unnamed/part_001, lines 335-561): the live      *)
(*   conversation session, its microphone / audio resources, the inbound   *)
(*   message handler (transcripts, audio scheduling, interruption).        *)
(*   DiscoverView (src/unnamed/part_001, lines 1-333): search, results,    *)
(*   selection and narration audio.                                        *)
(*                                                                         *)
(* Every start of a conversation is numbered 1..MaxStarts; start k owns    *)
(* microphone stream k, capture timeline k, playback timeline k, output    *)
(* node k and live session k.  A ref that holds 0 holds null.              *)
(***************************************************************************)
EXTENDS Integers, Sequences, FiniteSets, TLC

\* ------------------------------------------------------------------ bounds
MaxStarts == 2
MaxLifeMsgs == 1
MaxAudioMsgs == 2
MaxTurnMsgs == 3
MaxDur == 2
MaxTime == 2
MaxNow == 2
MaxSearches == 2
MaxSynth == 3
MaxPlays == 2
MaxMounts == 1
MaxFrames == 2
MaxRestartMsgs == 2

\* --------------------------------------------------------------- constants
NoError == "null"
ConversationErrorMsg == "An error occurred during the conversation."
StartFailedMsg == "Failed to start conversation. Please check microphone permissions."

VARIABLES
    \* ConversationView: React state
    mounted, isSessionActive, transcripts, error,
    \* ConversationView: refs
    sessionPromiseRef, mediaStreamRef, audioContextRef, scriptProcessorRef,
    mediaStreamSourceRef, outputAudioContextRef, outputNodeRef, sourcesRef,
    nextStartTimeRef, currentInputTranscriptionRef, currentOutputTranscriptionRef,
    \* the browser and the live service, as seen by ConversationView
    startPc,        \* start k: "none" | "gum" (awaiting getUserMedia) | "requested" | "gumFailed" | "ctxFailed"
    liveTracks,     \* streams whose microphone track is live
    openInCtx,      \* capture timelines that are not closed
    openOutCtx,     \* playback timelines that are not closed
    connectedProc,  \* processing nodes still connected
    connectedSrc,   \* capture source nodes still connected
    sess,           \* session k: "none" | "connecting" | "open" | "closing" | "closed"
    prom,           \* promise of session k: "none" | "pending" | "resolved" | "rejected"
    stopAwait,      \* sessions whose promise a stopConversation call is awaiting
    decoding,       \* inbound audio whose decodeAudioData promise is pending
    sched,          \* every segment started so far, in the order of source.start()
    stoppedSrc,     \* segments on which stop() was called
    endedSrc,       \* segments whose 'ended' event was delivered
    currentTime,    \* outputAudioContext.currentTime
    now,            \* Date.now()
    epoch,          \* number of interruption signals processed
    nMsg,           \* number of inbound messages delivered
    thrown,         \* a callback raised an exception
    lastStop,       \* the steps of the stopConversation call that finished last
    stopTick        \* flips whenever a stopConversation call finishes

convState == <<mounted, isSessionActive, transcripts, error>>
convRefs == <<sessionPromiseRef, mediaStreamRef, audioContextRef, scriptProcessorRef,
              mediaStreamSourceRef, outputAudioContextRef, outputNodeRef, sourcesRef,
              nextStartTimeRef, currentInputTranscriptionRef, currentOutputTranscriptionRef>>
convEnv == <<startPc, liveTracks, openInCtx, openOutCtx, connectedProc, connectedSrc,
             sess, prom, stopAwait, decoding, sched, stoppedSrc, endedSrc, currentTime,
             now, epoch, nMsg, thrown, lastStop, stopTick>>
convVars == <<convState, convRefs, convEnv>>

Starts == 1..MaxStarts

\* what cleanup() touches
cleanupVars == <<sourcesRef, stoppedSrc, scriptProcessorRef, connectedProc,
                 mediaStreamSourceRef, connectedSrc, audioContextRef, openInCtx,
                 outputAudioContextRef, openOutCtx, mediaStreamRef, liveTracks>>

InitConversation ==
    /\ mounted = TRUE
    /\ isSessionActive = FALSE
    /\ transcripts = <<>>
    /\ error = NoError
    /\ sessionPromiseRef = 0
    /\ mediaStreamRef = 0
    /\ audioContextRef = 0
    /\ scriptProcessorRef = 0
    /\ mediaStreamSourceRef = 0
    /\ outputAudioContextRef = 0
    /\ outputNodeRef = 0
    /\ sourcesRef = {}
    /\ nextStartTimeRef = 0
    /\ currentInputTranscriptionRef = <<>>
    /\ currentOutputTranscriptionRef = <<>>
    /\ startPc = [k \in Starts |-> "none"]
    /\ liveTracks = {}
    /\ openInCtx = {}
    /\ openOutCtx = {}
    /\ connectedProc = {}
    /\ connectedSrc = {}
    /\ sess = [k \in Starts |-> "none"]
    /\ prom = [k \in Starts |-> "none"]
    /\ stopAwait = {}
    /\ decoding = {}
    /\ sched = <<>>
    /\ stoppedSrc = {}
    /\ endedSrc = {}
    /\ currentTime = 0
    /\ now = 0
    /\ epoch = 0
    /\ nMsg = 0
    /\ thrown = FALSE
    /\ lastStop = <<>>
    /\ stopTick = FALSE

\* ------------------------------------------------ cleanup, stopConversation

\* cleanup(): stop and forget every scheduled segment, disconnect and null the
\* processing and capture nodes, close and null both timelines, stop the tracks
\* of the held stream and null it.  Every step is guarded by the ref it reads.
Cleanup ==
    /\ stoppedSrc' = stoppedSrc \cup sourcesRef
    /\ sourcesRef' = {}
    /\ connectedProc' = connectedProc \ {scriptProcessorRef}
    /\ scriptProcessorRef' = 0
    /\ connectedSrc' = connectedSrc \ {mediaStreamSourceRef}
    /\ mediaStreamSourceRef' = 0
    /\ openInCtx' = openInCtx \ {audioContextRef}
    /\ audioContextRef' = 0
    /\ openOutCtx' = openOutCtx \ {outputAudioContextRef}
    /\ outputAudioContextRef' = 0
    /\ liveTracks' = liveTracks \ {mediaStreamRef}
    /\ mediaStreamRef' = 0

\* session.close() on session k of the status map s: the close event follows later.
CloseSession(s, k) ==
    IF s[k] \in {"connecting", "open"} THEN [s EXCEPT ![k] = "closing"] ELSE s

\* The part of stopConversation after `await sessionPromiseRef.current` for the
\* promise of session k, which settled as outcome: session.close() or the catch,
\* then the finally (the ref is nulled whatever it holds by now), then cleanup().
FinishStop(s, k, outcome) ==
    /\ sess' = IF outcome = "resolved" THEN CloseSession(s, k) ELSE s
    /\ sessionPromiseRef' = 0
    /\ Cleanup
    /\ lastStop' = <<"inactive", IF outcome = "resolved" THEN "close" ELSE "closeError", "release">>
    /\ stopTick' = ~stopTick

\* stopConversation(), called with the session status map s the caller leaves.
\* With no promise held it runs cleanup() at once; with a settled promise the
\* await resumes in the same microtask checkpoint; with a pending promise the
\* call waits (stopAwait) and finishes when the promise settles.
StopConversation(s) ==
    /\ isSessionActive' = FALSE
    /\ IF sessionPromiseRef = 0
       THEN /\ sess' = s
            /\ sessionPromiseRef' = 0
            /\ Cleanup
            /\ lastStop' = <<"inactive", "release">>
            /\ stopTick' = ~stopTick
            /\ UNCHANGED stopAwait
       ELSE IF prom[sessionPromiseRef] = "pending"
       THEN /\ sess' = s
            /\ stopAwait' = stopAwait \cup {sessionPromiseRef}
            /\ UNCHANGED <<sessionPromiseRef, cleanupVars, lastStop, stopTick>>
       ELSE /\ FinishStop(s, sessionPromiseRef, prom[sessionPromiseRef])
            /\ UNCHANGED stopAwait


\* ------------------------------------------------------- startConversation

Max(a, b) == IF a >= b THEN a ELSE b

\* The next unused start number (0 when MaxStarts starts were made).
NextStart ==
    IF \E k \in Starts : startPc[k] = "none"
    THEN CHOOSE k \in Starts : startPc[k] = "none" /\ \A j \in Starts : j < k => startPc[j] # "none"
    ELSE 0

\* Click on Start (shown while isSessionActive is false): the part of
\* startConversation before `await getUserMedia`.
StartConversation ==
    /\ mounted
    /\ ~isSessionActive
    /\ NextStart # 0
    /\ error' = NoError
    /\ transcripts' = <<>>
    /\ currentInputTranscriptionRef' = <<>>
    /\ currentOutputTranscriptionRef' = <<>>
    /\ startPc' = [startPc EXCEPT ![NextStart] = "gum"]
    /\ UNCHANGED <<mounted, isSessionActive, sessionPromiseRef, mediaStreamRef, audioContextRef,
                   scriptProcessorRef, mediaStreamSourceRef, outputAudioContextRef, outputNodeRef,
                   sourcesRef, nextStartTimeRef, liveTracks, openInCtx, openOutCtx, connectedProc,
                   connectedSrc, sess, prom, stopAwait, decoding, sched, stoppedSrc, endedSrc,
                   currentTime, now, epoch, nMsg, thrown, lastStop, stopTick>>

\* getUserMedia of start k resolves: the stream is held, both timelines and the
\* output node are created, the watermark and the segment set are reset, and only
\* then the live session is requested.
GumResolve(k) ==
    /\ startPc[k] = "gum"
    /\ startPc' = [startPc EXCEPT ![k] = "requested"]
    /\ mediaStreamRef' = k
    /\ liveTracks' = liveTracks \cup {k}
    /\ audioContextRef' = k
    /\ openInCtx' = openInCtx \cup {k}
    /\ outputAudioContextRef' = k
    /\ openOutCtx' = openOutCtx \cup {k}
    /\ outputNodeRef' = k
    /\ nextStartTimeRef' = 0
    /\ sourcesRef' = {}
    /\ sessionPromiseRef' = k
    /\ sess' = [sess EXCEPT ![k] = "connecting"]
    /\ prom' = [prom EXCEPT ![k] = "pending"]
    /\ UNCHANGED <<convState, scriptProcessorRef, mediaStreamSourceRef,
                   currentInputTranscriptionRef, currentOutputTranscriptionRef,
                   connectedProc, connectedSrc, stopAwait, decoding, sched, stoppedSrc,
                   endedSrc, currentTime, now, epoch, nMsg, thrown, lastStop, stopTick>>

\* getUserMedia of start k resolves and a timeline constructor throws: the first
\* (at = 1) or the second (at = 2).  The catch shows the start-failure message.
GumResolveCtxFail(k, at) ==
    /\ startPc[k] = "gum"
    /\ startPc' = [startPc EXCEPT ![k] = "ctxFailed"]
    /\ mediaStreamRef' = k
    /\ liveTracks' = liveTracks \cup {k}
    /\ audioContextRef' = IF at = 2 THEN k ELSE audioContextRef
    /\ openInCtx' = IF at = 2 THEN openInCtx \cup {k} ELSE openInCtx
    /\ error' = StartFailedMsg
    /\ UNCHANGED <<mounted, isSessionActive, transcripts, sessionPromiseRef, scriptProcessorRef,
                   mediaStreamSourceRef, outputAudioContextRef, outputNodeRef, sourcesRef,
                   nextStartTimeRef, currentInputTranscriptionRef, currentOutputTranscriptionRef,
                   openOutCtx, connectedProc, connectedSrc, sess, prom, stopAwait, decoding,
                   sched, stoppedSrc, endedSrc, currentTime, now, epoch, nMsg, thrown,
                   lastStop, stopTick>>

\* A start whose microphone request rejects and that requests the live session
\* all the same (used to test C5).
GumRejectThenRequest(k) ==
    /\ startPc[k] = "gum"
    /\ startPc' = [startPc EXCEPT ![k] = "gumFailed"]
    /\ error' = StartFailedMsg
    /\ sessionPromiseRef' = k
    /\ sess' = [sess EXCEPT ![k] = "connecting"]
    /\ prom' = [prom EXCEPT ![k] = "pending"]
    /\ UNCHANGED <<mounted, isSessionActive, transcripts, mediaStreamRef, audioContextRef,
                   scriptProcessorRef, mediaStreamSourceRef, outputAudioContextRef,
                   outputNodeRef, sourcesRef, nextStartTimeRef,
                   currentInputTranscriptionRef, currentOutputTranscriptionRef, liveTracks,
                   openInCtx, openOutCtx, connectedProc, connectedSrc, stopAwait, decoding,
                   sched, stoppedSrc, endedSrc, currentTime, now, epoch, nMsg, thrown,
                   lastStop, stopTick>>

\* getUserMedia of start k rejects: the catch shows the start-failure message.
GumReject(k) ==
    /\ startPc[k] = "gum"
    /\ startPc' = [startPc EXCEPT ![k] = "gumFailed"]
    /\ error' = StartFailedMsg
    /\ UNCHANGED <<mounted, isSessionActive, transcripts, convRefs, liveTracks, openInCtx,
                   openOutCtx, connectedProc, connectedSrc, sess, prom, stopAwait, decoding,
                   sched, stoppedSrc, endedSrc, currentTime, now, epoch, nMsg, thrown,
                   lastStop, stopTick>>

\* ------------------------------------------------------ session callbacks

\* onopen of session k: the session is marked active, then the capture source and
\* the processing node are created on audioContextRef.current (the non-null
\* assertion: a null ref raises a TypeError after the flag was set).
OnOpen(k) ==
    /\ sess[k] = "connecting"
    /\ sess' = [sess EXCEPT ![k] = "open"]
    /\ isSessionActive' = TRUE
    /\ IF audioContextRef = 0
       THEN /\ thrown' = TRUE
            /\ UNCHANGED <<mediaStreamSourceRef, scriptProcessorRef, connectedSrc, connectedProc>>
       ELSE /\ mediaStreamSourceRef' = k
            /\ scriptProcessorRef' = k
            /\ connectedSrc' = connectedSrc \cup {k}
            /\ connectedProc' = connectedProc \cup {k}
            /\ UNCHANGED thrown
    /\ UNCHANGED <<mounted, transcripts, error, sessionPromiseRef, mediaStreamRef, audioContextRef,
                   outputAudioContextRef, outputNodeRef, sourcesRef, nextStartTimeRef,
                   currentInputTranscriptionRef, currentOutputTranscriptionRef, startPc,
                   liveTracks, openInCtx, openOutCtx, prom, stopAwait, decoding, sched,
                   stoppedSrc, endedSrc, currentTime, now, epoch, nMsg, lastStop, stopTick>>

\* The promise startLiveConversation returned for session k settles as outcome;
\* every stopConversation call awaiting it resumes in the same microtask checkpoint.
\* A rejected request never opens.
ConnectSettle(k, outcome) ==
    /\ prom[k] = "pending"
    /\ outcome = "rejected" => sess[k] = "connecting"
    /\ prom' = [prom EXCEPT ![k] = outcome]
    /\ LET s == IF outcome = "rejected" THEN [sess EXCEPT ![k] = "closed"] ELSE sess
       IN  IF k \in stopAwait
           THEN /\ FinishStop(s, k, outcome)
                /\ stopAwait' = stopAwait \ {k}
           ELSE /\ sess' = s
                /\ UNCHANGED <<sessionPromiseRef, cleanupVars, lastStop, stopTick, stopAwait>>
    /\ UNCHANGED <<convState, outputNodeRef, nextStartTimeRef, currentInputTranscriptionRef,
                   currentOutputTranscriptionRef, startPc, decoding, sched, endedSrc,
                   currentTime, now, epoch, nMsg, thrown>>

\* onerror of session k: the generic message is shown and the stop path runs.  The
\* socket's close event follows its error event.
OnError(k) ==
    /\ sess[k] \in {"connecting", "open"}
    /\ error' = ConversationErrorMsg
    /\ StopConversation([sess EXCEPT ![k] = "closing"])
    /\ UNCHANGED <<mounted, transcripts, outputNodeRef, nextStartTimeRef,
                   currentInputTranscriptionRef, currentOutputTranscriptionRef, startPc, prom,
                   decoding, sched, endedSrc, currentTime, now, epoch, nMsg, thrown>>

\* onclose of session k (a remote close, or the close event after close() or an
\* error): the stop path runs.
OnClose(k) ==
    /\ sess[k] \in {"connecting", "open", "closing"}
    /\ StopConversation([sess EXCEPT ![k] = "closed"])
    /\ UNCHANGED <<mounted, transcripts, error, outputNodeRef, nextStartTimeRef,
                   currentInputTranscriptionRef, currentOutputTranscriptionRef, startPc, prom,
                   decoding, sched, endedSrc, currentTime, now, epoch, nMsg, thrown>>

\* Click on Stop (shown while isSessionActive is true).
UserStop ==
    /\ mounted
    /\ isSessionActive
    /\ StopConversation(sess)
    /\ UNCHANGED <<mounted, transcripts, error, outputNodeRef, nextStartTimeRef,
                   currentInputTranscriptionRef, currentOutputTranscriptionRef, startPc, prom,
                   decoding, sched, endedSrc, currentTime, now, epoch, nMsg, thrown>>

\* The view is left: the unmount effect calls stopConversation.
Unmount ==
    /\ mounted
    /\ mounted' = FALSE
    /\ StopConversation(sess)
    /\ UNCHANGED <<transcripts, error, outputNodeRef, nextStartTimeRef,
                   currentInputTranscriptionRef, currentOutputTranscriptionRef, startPc, prom,
                   decoding, sched, endedSrc, currentTime, now, epoch, nMsg, thrown>>


\* ------------------------------------------------------- onmessage handler

\* An inbound message: inT / outT are the text of its input / output transcription
\* ("" when the message carries none), turn its turn-completion signal, audio the
\* duration of its inline audio (0 when it carries none), intr its interruption
\* signal.
Message(i, o, t, a, n) == [inT |-> i, outT |-> o, turn |-> t, audio |-> a, intr |-> n]

\* buffer += text
Concat(buf, text) == IF text = "" THEN buf ELSE Append(buf, text)

\* A turn completion that appends the model entry before the user entry (used to
\* test C8).
TurnEntriesModelFirst(input, output, t1, t2) ==
    (IF output # <<>> THEN <<[id |-> t2 + 1, speaker |-> "model", text |-> output]>> ELSE <<>>)
    \o (IF input # <<>> THEN <<[id |-> t1, speaker |-> "user", text |-> input]>> ELSE <<>>)

\* The entries a turn completion appends for the buffers input and output, with the
\* clock readings t1 and t2 of the two Date.now() calls.
TurnEntries(input, output, t1, t2) ==
    (IF input # <<>> THEN <<[id |-> t1, speaker |-> "user", text |-> input]>> ELSE <<>>)
    \o (IF output # <<>> THEN <<[id |-> t2 + 1, speaker |-> "model", text |-> output]>> ELSE <<>>)

\* An interruption that stops and clears the segments and keeps the watermark
\* (used to test C7).
InterruptKeepWatermark(srcs) ==
    /\ stoppedSrc' = stoppedSrc \cup srcs
    /\ sourcesRef' = {}
    /\ nextStartTimeRef' = nextStartTimeRef
    /\ epoch' = epoch + 1

\* sourcesRef.forEach(stop); clear(); nextStartTimeRef = 0 -- on the set srcs
InterruptPlayback(srcs) ==
    /\ stoppedSrc' = stoppedSrc \cup srcs
    /\ sourcesRef' = {}
    /\ nextStartTimeRef' = 0
    /\ epoch' = epoch + 1

\* onmessage of session k for message m, up to its `await decodeAudioData` (or to
\* its end when the message schedules no audio).
OnMessage(k, m) ==
    /\ sess[k] = "open"
    /\ nMsg' = nMsg + 1
    /\ LET input == Concat(currentInputTranscriptionRef, m.inT)
           output == Concat(currentOutputTranscriptionRef, m.outT)
       IN  IF m.turn
           THEN /\ \E t2 \in {now, IF now < MaxNow THEN now + 1 ELSE now} :
                     /\ (input = <<>> \/ output = <<>>) => t2 = now
                     /\ transcripts' = transcripts \o TurnEntries(input, output, now, t2)
                     /\ now' = t2
                /\ currentInputTranscriptionRef' = <<>>
                /\ currentOutputTranscriptionRef' = <<>>
           ELSE /\ currentInputTranscriptionRef' = input
                /\ currentOutputTranscriptionRef' = output
                /\ UNCHANGED <<transcripts, now>>
    /\ IF m.audio > 0 /\ outputAudioContextRef # 0 /\ outputNodeRef # 0
       THEN /\ nextStartTimeRef' = Max(nextStartTimeRef, currentTime)
            /\ decoding' = decoding \cup
                   {[id |-> nMsg + 1, dur |-> m.audio, intr |-> m.intr,
                     entryClock |-> currentTime, entryEpoch |-> epoch]}
            /\ UNCHANGED <<sourcesRef, stoppedSrc, epoch>>
       ELSE /\ IF m.intr
               THEN InterruptPlayback(sourcesRef)
               ELSE UNCHANGED <<sourcesRef, stoppedSrc, nextStartTimeRef, epoch>>
            /\ UNCHANGED decoding
    /\ UNCHANGED <<mounted, isSessionActive, error, sessionPromiseRef, mediaStreamRef,
                   audioContextRef, scriptProcessorRef, mediaStreamSourceRef,
                   outputAudioContextRef, outputNodeRef, startPc, liveTracks, openInCtx,
                   openOutCtx, connectedProc, connectedSrc, sess, prom, stopAwait, sched,
                   endedSrc, currentTime, thrown, lastStop, stopTick>>

\* A scheduling step that starts the segment and leaves the watermark where it
\* was (used to test C6).
DecodeDoneNoAdvance(d) ==
    /\ d \in decoding
    /\ decoding' = decoding \ {d}
    /\ sched' = Append(sched, [start |-> nextStartTimeRef, dur |-> d.dur,
                               clock |-> currentTime, entryClock |-> d.entryClock,
                               entryEpoch |-> d.entryEpoch, epoch |-> epoch,
                               msg |-> d.id])
    /\ sourcesRef' = sourcesRef \cup {Len(sched) + 1}
    /\ UNCHANGED <<convState, sessionPromiseRef, mediaStreamRef, audioContextRef,
                   scriptProcessorRef, mediaStreamSourceRef, outputAudioContextRef,
                   outputNodeRef, nextStartTimeRef, currentInputTranscriptionRef,
                   currentOutputTranscriptionRef, startPc, liveTracks, openInCtx, openOutCtx,
                   connectedProc, connectedSrc, sess, prom, stopAwait, stoppedSrc, endedSrc,
                   currentTime, now, epoch, nMsg, thrown, lastStop, stopTick>>

\* The rest of onmessage for the pending decode d: the segment is started at the
\* watermark, the watermark advances by its duration, the segment joins the set;
\* then the message's interruption signal, if any, is processed.
DecodeDone(d) ==
    /\ d \in decoding
    /\ decoding' = decoding \ {d}
    /\ LET id == Len(sched) + 1
       IN  /\ sched' = Append(sched, [start |-> nextStartTimeRef, dur |-> d.dur,
                                      clock |-> currentTime, entryClock |-> d.entryClock,
                                      entryEpoch |-> d.entryEpoch, epoch |-> epoch,
                                      msg |-> d.id])
           /\ IF d.intr
              THEN InterruptPlayback(sourcesRef \cup {id})
              ELSE /\ nextStartTimeRef' = nextStartTimeRef + d.dur
                   /\ sourcesRef' = sourcesRef \cup {id}
                   /\ UNCHANGED <<stoppedSrc, epoch>>
    /\ UNCHANGED <<convState, sessionPromiseRef, mediaStreamRef, audioContextRef,
                   scriptProcessorRef, mediaStreamSourceRef, outputAudioContextRef,
                   outputNodeRef, currentInputTranscriptionRef, currentOutputTranscriptionRef,
                   startPc, liveTracks, openInCtx, openOutCtx, connectedProc, connectedSrc,
                   sess, prom, stopAwait, endedSrc, currentTime, now, nMsg, thrown,
                   lastStop, stopTick>>

\* The time at which segment i of sched stops sounding when nothing stops it.
NaturalEnd(i) == Max(sched[i].start, sched[i].clock) + sched[i].dur

\* An 'ended' listener that leaves the segment in the set (used to test C22).
SourceEndedKeepsSegment(i) ==
    /\ i \in 1..Len(sched)
    /\ i \notin endedSrc
    /\ i \in stoppedSrc \/ currentTime >= NaturalEnd(i)
    /\ endedSrc' = endedSrc \cup {i}
    /\ UNCHANGED <<convState, convRefs, startPc, liveTracks, openInCtx, openOutCtx,
                   connectedProc, connectedSrc, sess, prom, stopAwait, decoding, sched,
                   stoppedSrc, currentTime, now, epoch, nMsg, thrown, lastStop, stopTick>>

\* The 'ended' listener of segment i (it played to its end, or stop() was called):
\* the segment leaves the set.
SourceEnded(i) ==
    /\ i \in 1..Len(sched)
    /\ i \notin endedSrc
    /\ i \in stoppedSrc \/ currentTime >= NaturalEnd(i)
    /\ endedSrc' = endedSrc \cup {i}
    /\ sourcesRef' = sourcesRef \ {i}
    /\ UNCHANGED <<convState, sessionPromiseRef, mediaStreamRef, audioContextRef,
                   scriptProcessorRef, mediaStreamSourceRef, outputAudioContextRef,
                   outputNodeRef, nextStartTimeRef, currentInputTranscriptionRef,
                   currentOutputTranscriptionRef, startPc, liveTracks, openInCtx, openOutCtx,
                   connectedProc, connectedSrc, sess, prom, stopAwait, decoding, sched,
                   stoppedSrc, currentTime, now, epoch, nMsg, thrown, lastStop, stopTick>>

\* The playback clock advances.
Tick ==
    /\ currentTime < MaxTime
    /\ currentTime' = currentTime + 1
    /\ UNCHANGED <<convState, convRefs, startPc, liveTracks, openInCtx, openOutCtx,
                   connectedProc, connectedSrc, sess, prom, stopAwait, decoding, sched,
                   stoppedSrc, endedSrc, now, epoch, nMsg, thrown, lastStop, stopTick>>

\* The wall clock advances by one millisecond.
NowTick ==
    /\ now < MaxNow
    /\ now' = now + 1
    /\ UNCHANGED <<convState, convRefs, startPc, liveTracks, openInCtx, openOutCtx,
                   connectedProc, connectedSrc, sess, prom, stopAwait, decoding, sched,
                   stoppedSrc, endedSrc, currentTime, epoch, nMsg, thrown, lastStop, stopTick>>


\* ------------------------------------------------------ microphone frames

VARIABLES
    nFrames,        \* audio frames the processing nodes captured so far
    sends,          \* the frames handed to a session promise: [frame, proc, to, state],
                    \* state "queued" | "sent" | "failed"
    dropped,        \* the frames captured while sessionPromiseRef was null
    procCtx         \* processing node k: the capture timeline it was created on (0: none)

capVars == <<nFrames, sends, dropped, procCtx>>

InitCapture ==
    /\ nFrames = 0
    /\ sends = <<>>
    /\ dropped = {}
    /\ procCtx = [k \in Starts |-> 0]


\* ============================================================ DiscoverView

VARIABLES
    \* DiscoverView: React state (errorD, sourcesD: `error`, `sources` of DiscoverView)
    isLoading, status, errorD, places, sourcesD, selectedPlace,
    isAudioLoading, isPlaying, audioLanguage,
    \* DiscoverView: refs (audioContextRefD: `audioContextRef` of DiscoverView)
    audioContextRefD, audioBufferRef, audioSourceRef,
    \* the browser and the service, as seen by DiscoverView
    geo,            \* "idle" | "pending": a getCurrentPosition call in flight
    search,         \* every discovery request issued: [query, state]
    synth,          \* every synthesis request issued: [place, lang, state]
    sounding,       \* narration sources that are playing
    endedPending,   \* stopped narration sources whose onended has not run yet
    nSrc,           \* narration sources created so far
    \* App: DiscoverView is unmounted and mounted again by the navigation
    nMounts,        \* how often DiscoverView was mounted again
    srcBase,        \* the sources up to srcBase belong to unmounted DiscoverViews
    geoOld          \* -1, or the source (0: none) held by an unmounted DiscoverView
                    \* whose getCurrentPosition call is still in flight

discState == <<isLoading, status, errorD, places, sourcesD, selectedPlace,
               isAudioLoading, isPlaying, audioLanguage>>
discRefs == <<audioContextRefD, audioBufferRef, audioSourceRef>>
discEnv == <<geo, search, synth, sounding, endedPending, nSrc>>
mountVars == <<nMounts, srcBase, geoOld>>
discVars == <<discState, discRefs, discEnv, mountVars>>

vars == <<convVars, discVars, capVars>>

\* A nullable list: null, or the list val.
Null == [null |-> TRUE, val |-> <<>>]
Some(v) == [null |-> FALSE, val |-> v]

\* selectedPlace = NoPlace: no place is selected (null).
NoPlace == [name |-> "", description |-> "", category |-> <<>>, imageUrl |-> ""]

FormatErrorMsg == "The AI returned an unexpected format. Please try again."
FetchFallbackMsg == "Failed to get information. Please try again."
GeoFallbackMsg == "Failed to get location. Please try again."
GeoDeniedMsg == "Geolocation Error: User denied Geolocation"
GeoTimeoutMsg == "Geolocation Error: Timeout expired"
MapTypeErrorMsg == "foundPlaces.map is not a function"

InitDiscover ==
    /\ isLoading = FALSE
    /\ status = ""
    /\ errorD = NoError
    /\ places = Null
    /\ sourcesD = Null
    /\ selectedPlace = NoPlace
    /\ isAudioLoading = FALSE
    /\ isPlaying = FALSE
    /\ audioLanguage = "english"
    /\ audioContextRefD = 0
    /\ audioBufferRef = 0
    /\ audioSourceRef = 0
    /\ geo = "idle"
    /\ search = <<>>
    /\ synth = <<>>
    /\ sounding = {}
    /\ endedPending = {}
    /\ nSrc = 0
    /\ nMounts = 0
    /\ srcBase = 0
    /\ geoOld = -1

\* What the render shows: the first branch of the conditional chain that applies.
View ==
    IF isLoading THEN "loading"
    ELSE IF errorD # NoError THEN "error"
    ELSE IF selectedPlace # NoPlace THEN "detail"
    ELSE IF ~places.null THEN "list"
    ELSE "form"

\* ---------------------------------------------------------- getCategoryImage

\* Categories are sequences of characters.
Lower(c) ==
    CASE c = "A" -> "a" [] c = "F" -> "f" [] c = "H" -> "h" [] c = "N" -> "n"
      [] c = "O" -> "o" [] c = "P" -> "p" [] c = "R" -> "r" [] c = "T" -> "t"
      [] OTHER -> c

ToLowerCase(str) == [i \in 1..Len(str) |-> Lower(str[i])]

\* str.includes(key)
Includes(str, key) ==
    \E i \in 0..(Len(str) - Len(key)) : SubSeq(str, i + 1, i + Len(key)) = key

\* The illustration table, in the order the loop visits its keys.
CategoryKeys ==
    << <<"n","a","t","u","r","e">>,
       <<"a","r","c","h","i","t","e","c","t","u","r","e">>,
       <<"h","i","s","t","o","r","y">>,
       <<"f","o","o","d">>,
       <<"a","r","t">>,
       <<"o","t","h","e","r">> >>
CategoryImages ==
    <<"pexels-photo-3225517", "architecture-building-france-landmark-161439",
      "pexels-photo-326900", "pexels-photo-262978", "pexels-photo-102127",
      "pexels-photo-417074">>

\* A getCategoryImage in which the last key that matches decides (used to test
\* C16).
getCategoryImageLastMatch(category) ==
    LET categoryLower == IF category = <<>> THEN CategoryKeys[6] ELSE ToLowerCase(category)
        hits == {i \in 1..Len(CategoryKeys) : Includes(categoryLower, CategoryKeys[i])}
    IN  IF hits # {}
        THEN CategoryImages[CHOOSE i \in hits : \A j \in hits : i >= j]
        ELSE CategoryImages[6]

\* getCategoryImage(category): a missing or empty category counts as "other"; the
\* first key the lower-cased category contains decides; else the generic image.
getCategoryImage(category) ==
    LET categoryLower == IF category = <<>> THEN CategoryKeys[6] ELSE ToLowerCase(category)
        hits == {i \in 1..Len(CategoryKeys) : Includes(categoryLower, CategoryKeys[i])}
    IN  IF hits # {}
        THEN CategoryImages[CHOOSE i \in hits : \A j \in hits : i <= j]
        ELSE CategoryImages[6]

\* ------------------------------------------------------------- cleanupAudio

\* cleanupAudio(): a held source is stopped, disconnected and forgotten (its onended
\* runs later); the buffer is forgotten; isPlaying is cleared.
CleanupAudio ==
    /\ IF audioSourceRef # 0
       THEN /\ endedPending' = IF audioSourceRef \in sounding
                               THEN endedPending \cup {audioSourceRef} ELSE endedPending
            /\ sounding' = sounding \ {audioSourceRef}
       ELSE UNCHANGED <<sounding, endedPending>>
    /\ audioSourceRef' = 0
    /\ audioBufferRef' = 0
    /\ isPlaying' = FALSE


\* ---------------------------------------------------------- getNearbyPlaces

\* A service response: fenced says whether the text holds a ```json fence, content
\* what the fence holds ("empty", "invalid": not JSON, "array": a JSON array of the
\* records items, "object": JSON that is no array), chunks the grounding chunks.
\* A chunk is
\* [webUri, webTitle, mapsUri, mapsTitle], "" standing for a missing part.
Response(f, c, it, ch) == [fenced |-> f, content |-> c, items |-> it, chunks |-> ch]

\* A flatMap callback that lists the maps source of a chunk before its web source
\* (used to test C18).
ChunkSourcesMapsFirst(chunk) ==
    (IF chunk.mapsUri # ""
     THEN <<[uri |-> chunk.mapsUri,
             title |-> IF chunk.mapsTitle # "" THEN chunk.mapsTitle ELSE "Map Location",
             type |-> "maps"]>>
     ELSE <<>>)
    \o (IF chunk.webUri # ""
        THEN <<[uri |-> chunk.webUri,
                title |-> IF chunk.webTitle # "" THEN chunk.webTitle ELSE "Web Source",
                type |-> "web"]>>
        ELSE <<>>)

\* The sources one grounding chunk contributes.
ChunkSources(chunk) ==
    (IF chunk.webUri # ""
     THEN <<[uri |-> chunk.webUri,
             title |-> IF chunk.webTitle # "" THEN chunk.webTitle ELSE "Web Source",
             type |-> "web"]>>
     ELSE <<>>)
    \o (IF chunk.mapsUri # ""
        THEN <<[uri |-> chunk.mapsUri,
                title |-> IF chunk.mapsTitle # "" THEN chunk.mapsTitle ELSE "Map Location",
                type |-> "maps"]>>
        ELSE <<>>)

RECURSIVE FlatMapSources(_)
FlatMapSources(chunks) ==
    IF chunks = <<>> THEN <<>>
    ELSE ChunkSources(Head(chunks)) \o FlatMapSources(Tail(chunks))

\* A getNearbyPlaces that answers a response without usable JSON with no places
\* and the sources it collected (used to test C15).
getNearbyPlacesLenient(resp) ==
    [ok |-> TRUE, isArray |-> TRUE,
     places |-> IF resp.fenced /\ resp.content = "array" THEN resp.items ELSE <<>>,
     sources |-> FlatMapSources(resp.chunks), message |-> ""]

\* getNearbyPlaces on the response resp: the places and the sources, or the format
\* error when the fence is absent, empty or holds no JSON.
getNearbyPlaces(resp) ==
    IF resp.fenced /\ resp.content \in {"array", "object"}
    THEN [ok |-> TRUE, isArray |-> resp.content = "array", places |-> resp.items,
          sources |-> FlatMapSources(resp.chunks), message |-> ""]
    ELSE [ok |-> FALSE, isArray |-> FALSE, places |-> <<>>, sources |-> <<>>,
          message |-> FormatErrorMsg]

\* --------------------------------------------------------------- searching

RECURSIVE TrimStart(_)
TrimStart(str) ==
    IF str # <<>> /\ Head(str) = " " THEN TrimStart(Tail(str)) ELSE str

RECURSIVE TrimEnd(_)
TrimEnd(str) ==
    IF str # <<>> /\ str[Len(str)] = " " THEN TrimEnd(SubSeq(str, 1, Len(str) - 1)) ELSE str

\* locationInput.trim()
Trim(str) == TrimEnd(TrimStart(str))

\* handleFetchPlaces(locationQuery) up to `await getNearbyPlaces`: loading is set,
\* error, places, selection and sources are cleared, the narration audio is stopped
\* and discarded, and the discovery request is issued.
HandleFetchPlaces(locationQuery) ==
    /\ isLoading' = TRUE
    /\ errorD' = NoError
    /\ places' = Null
    /\ selectedPlace' = NoPlace
    /\ sourcesD' = Null
    /\ CleanupAudio
    /\ status' = "Finding interesting places..."
    /\ search' = Append(search, [query |-> locationQuery, state |-> "pending"])

\* The search form is submitted with the text input.
HandleSearch(input) ==
    /\ View = "form"
    /\ Len(search) < MaxSearches
    /\ Trim(input) # <<>>
    /\ HandleFetchPlaces(Trim(input))
    /\ UNCHANGED <<isAudioLoading, audioLanguage, audioContextRefD, geo, synth, nSrc, convVars, capVars, mountVars>>

\* Click on Use My Current Location.
HandleUseCurrentLocation ==
    /\ View = "form"
    /\ Len(search) < MaxSearches
    /\ geo = "idle"
    /\ isLoading' = TRUE
    /\ errorD' = NoError
    /\ status' = "Getting your location..."
    /\ geo' = "pending"
    /\ UNCHANGED <<places, sourcesD, selectedPlace, isAudioLoading, isPlaying, audioLanguage,
                   discRefs, search, synth, sounding, endedPending, nSrc, convVars, capVars, mountVars>>

\* The position arrives: handleFetchPlaces runs with the location sentence.
GeoResolve(latitude, longitude) ==
    /\ geo = "pending"
    /\ geo' = "idle"
    /\ HandleFetchPlaces(<<"near my current location at latitude ", latitude,
                           ", longitude ", longitude>>)
    /\ UNCHANGED <<isAudioLoading, audioLanguage, audioContextRefD, synth, nSrc, convVars, capVars, mountVars>>

\* A failed position request that shows the error and leaves the loading flag set
\* (used to test C14).
GeoRejectKeepLoading(positionError, message) ==
    /\ geo = "pending"
    /\ geo' = "idle"
    /\ errorD' = IF message # "" THEN message ELSE "Failed to get location. Please try again."
    /\ UNCHANGED <<isLoading, status, places, sourcesD, selectedPlace, isAudioLoading,
                   isPlaying, audioLanguage, audioContextRefD, audioBufferRef,
                   audioSourceRef, search, synth, sounding, endedPending, nSrc, convVars, capVars, mountVars>>

\* The position request fails with a GeolocationPositionError (positionError), whose
\* message is "Timeout expired" or "User denied Geolocation", or with another error.
GeoReject(positionError, message) ==
    /\ geo = "pending"
    /\ geo' = "idle"
    /\ errorD' = IF positionError
                 THEN (IF message = "Timeout expired" THEN GeoTimeoutMsg ELSE GeoDeniedMsg)
                 ELSE IF message # "" THEN message ELSE GeoFallbackMsg
    /\ isLoading' = FALSE
    /\ status' = ""
    /\ UNCHANGED <<places, sourcesD, selectedPlace, isAudioLoading, isPlaying, audioLanguage,
                   discRefs, search, synth, sounding, endedPending, nSrc, convVars, capVars, mountVars>>

\* The place as the list shows it: decorated with its illustration.
WithImage(place) == [place EXCEPT !.imageUrl = getCategoryImage(place.category)]

\* The service answers discovery request n with resp: the rest of handleFetchPlaces.
DiscoveryResolve(n, resp) ==
    /\ n \in 1..Len(search)
    /\ search[n].state = "pending"
    /\ LET found == getNearbyPlaces(resp)
       IN  IF found.ok /\ found.isArray
           THEN /\ sourcesD' = Some(found.sources)
                /\ places' = Some([i \in 1..Len(found.places) |-> WithImage(found.places[i])])
                /\ search' = [search EXCEPT ![n].state = "done"]
                /\ UNCHANGED errorD
           ELSE IF found.ok
           THEN \* foundPlaces.map is no function: the TypeError reaches the catch
                /\ sourcesD' = Some(found.sources)
                /\ errorD' = MapTypeErrorMsg
                /\ search' = [search EXCEPT ![n].state = "failed"]
                /\ UNCHANGED places
           ELSE /\ errorD' = found.message
                /\ search' = [search EXCEPT ![n].state = "failed"]
                /\ UNCHANGED <<sourcesD, places>>
    /\ isLoading' = FALSE
    /\ status' = ""
    /\ UNCHANGED <<selectedPlace, isAudioLoading, isPlaying, audioLanguage, discRefs, geo,
                   synth, sounding, endedPending, nSrc, convVars, capVars, mountVars>>

\* A failed discovery call that shows the error and leaves the loading flag set
\* (used to test C26).
DiscoveryRejectStaysLoading(n, message) ==
    /\ n \in 1..Len(search)
    /\ search[n].state = "pending"
    /\ search' = [search EXCEPT ![n].state = "failed"]
    /\ errorD' = IF message # "" THEN message ELSE FetchFallbackMsg
    /\ UNCHANGED <<isLoading, status, places, sourcesD, selectedPlace, isAudioLoading, isPlaying,
                   audioLanguage, discRefs, geo, synth, sounding, endedPending, nSrc, convVars,
                   capVars, mountVars>>

\* The discovery request n itself fails (the call rejects) with message.
DiscoveryReject(n, message) ==
    /\ n \in 1..Len(search)
    /\ search[n].state = "pending"
    /\ search' = [search EXCEPT ![n].state = "failed"]
    /\ errorD' = IF message # "" THEN message ELSE FetchFallbackMsg
    /\ isLoading' = FALSE
    /\ status' = ""
    /\ UNCHANGED <<places, sourcesD, selectedPlace, isAudioLoading, isPlaying, audioLanguage,
                   discRefs, geo, synth, sounding, endedPending, nSrc, convVars, capVars, mountVars>>


\* --------------------------------------------------------------- narration

\* The narration effect for place in language lang (generateAudio up to
\* `await getTextToSpeech`): the old audio is stopped and discarded, the loading
\* flag is set and the synthesis request is issued.
GenerateAudio(place, lang) ==
    /\ CleanupAudio
    /\ isAudioLoading' = TRUE
    /\ synth' = Append(synth, [place |-> place.name, text |-> place.description,
                                lang |-> lang, state |-> "pending"])

\* Click on the card of place i of the list; the effect runs for the new selection.
HandleSelectPlace(i) ==
    /\ View = "list"
    /\ i \in 1..Len(places.val)
    /\ Len(synth) < MaxSynth
    /\ selectedPlace' = places.val[i]
    /\ GenerateAudio(places.val[i], audioLanguage)
    /\ UNCHANGED <<isLoading, status, errorD, places, sourcesD, audioLanguage,
                   audioContextRefD, geo, search, nSrc, convVars, capVars, mountVars>>

\* Click on a language button of the detail page; the effect runs when the
\* language changed.
SetAudioLanguage(lang) ==
    /\ View = "detail"
    /\ lang # audioLanguage
    /\ Len(synth) < MaxSynth
    /\ audioLanguage' = lang
    /\ GenerateAudio(selectedPlace, lang)
    /\ UNCHANGED <<isLoading, status, errorD, places, sourcesD, selectedPlace,
                   audioContextRefD, geo, search, nSrc, convVars, capVars, mountVars>>

\* Synthesis request n answers with an audio payload: the playback context is
\* created when there is none, and the decoding starts.
SynthResolve(n) ==
    /\ n \in 1..Len(synth)
    /\ synth[n].state = "pending"
    /\ synth' = [synth EXCEPT ![n].state = "decoding"]
    /\ audioContextRefD' = 1
    /\ UNCHANGED <<discState, audioBufferRef, audioSourceRef, geo, search, sounding,
                   endedPending, nSrc, convVars, capVars, mountVars>>

\* The decoding of answer n ends: the buffer is loaded, the loading flag cleared.
SynthDecoded(n) ==
    /\ n \in 1..Len(synth)
    /\ synth[n].state = "decoding"
    /\ synth' = [synth EXCEPT ![n].state = "loaded"]
    /\ audioBufferRef' = n
    /\ isAudioLoading' = FALSE
    /\ UNCHANGED <<isLoading, status, errorD, places, sourcesD, selectedPlace, isPlaying,
                   audioLanguage, audioContextRefD, audioSourceRef, geo, search, sounding,
                   endedPending, nSrc, convVars, capVars, mountVars>>

\* Synthesis request n fails (no audio payload, a failed call, undecodable audio):
\* the catch logs, the finally clears the loading flag.
SynthFail(n) ==
    /\ n \in 1..Len(synth)
    /\ synth[n].state \in {"pending", "decoding"}
    /\ synth' = [synth EXCEPT ![n].state = "failed"]
    /\ isAudioLoading' = FALSE
    /\ UNCHANGED <<isLoading, status, errorD, places, sourcesD, selectedPlace, isPlaying,
                   audioLanguage, discRefs, geo, search, sounding, endedPending, nSrc,
                   convVars, capVars, mountVars>>

\* Click on the play / pause button: nothing without a context and a buffer; a
\* playing source is stopped (its onended runs later); else a new source is started.
ToggleAudio ==
    /\ View = "detail"
    /\ ~isAudioLoading
    /\ audioContextRefD # 0 /\ audioBufferRef # 0
    /\ IF isPlaying
       THEN /\ sounding' = sounding \ {audioSourceRef}
            /\ endedPending' = IF audioSourceRef \in sounding
                               THEN endedPending \cup {audioSourceRef} ELSE endedPending
            /\ UNCHANGED <<audioSourceRef, isPlaying, nSrc>>
       ELSE /\ nSrc < MaxPlays
            /\ nSrc' = nSrc + 1
            /\ sounding' = sounding \cup {nSrc + 1}
            /\ audioSourceRef' = nSrc + 1
            /\ isPlaying' = TRUE
            /\ UNCHANGED endedPending
    /\ UNCHANGED <<isLoading, status, errorD, places, sourcesD, selectedPlace, isAudioLoading,
                   audioLanguage, audioContextRefD, audioBufferRef, geo, search, synth,
                   convVars, capVars, mountVars>>

\* onended of narration source id (it played to its end, or stop() was called). The
\* handler writes the state and the ref of the DiscoverView that created the source.
NarrationEnded(id) ==
    /\ id \in sounding \cup endedPending
    /\ sounding' = sounding \ {id}
    /\ endedPending' = endedPending \ {id}
    /\ IF id > srcBase
       THEN /\ isPlaying' = FALSE
            /\ audioSourceRef' = 0
            /\ UNCHANGED geoOld
       ELSE /\ geoOld' = IF geoOld > 0 THEN 0 ELSE geoOld
            /\ UNCHANGED <<isPlaying, audioSourceRef>>
    /\ UNCHANGED <<isLoading, status, errorD, places, sourcesD, selectedPlace, isAudioLoading,
                   audioLanguage, audioContextRefD, audioBufferRef, geo, search, synth, nSrc,
                   nMounts, srcBase, convVars, capVars>>

\* Click on Back to List.
BackToList ==
    /\ View = "detail"
    /\ selectedPlace' = NoPlace
    /\ UNCHANGED <<isLoading, status, errorD, places, sourcesD, isAudioLoading, isPlaying,
                   audioLanguage, discRefs, discEnv, convVars, capVars, mountVars>>

\* Click on Start a New Search.
StartNewSearch ==
    /\ View = "list"
    /\ places' = Null
    /\ UNCHANGED <<isLoading, status, errorD, sourcesD, selectedPlace, isAudioLoading,
                   isPlaying, audioLanguage, discRefs, discEnv, convVars, capVars, mountVars>>

\* Click on Try Again of the error panel.
TryAgain ==
    /\ View = "error"
    /\ errorD' = NoError
    /\ places' = Null
    /\ UNCHANGED <<isLoading, status, sourcesD, selectedPlace, isAudioLoading, isPlaying,
                   audioLanguage, discRefs, discEnv, convVars, capVars, mountVars>>


\* ------------------------------------------------------------ navigation

Orphaned(reqs, states) ==
    [n \in DOMAIN reqs |-> IF reqs[n].state \in states
                           THEN [reqs[n] EXCEPT !.state = "orphan"] ELSE reqs[n]]

\* Click on Converse with AI and then on Discover Place: App unmounts DiscoverView
\* and mounts a new one, with initial state and refs. DiscoverView has no unmount
\* cleanup: playing sources keep playing, requests in flight stay in flight, and
\* their handlers write the state of the unmounted view, which shows nowhere.
RemountDiscover ==
    /\ nMounts < MaxMounts
    /\ geo = "pending" => geoOld = -1
    /\ nMounts' = nMounts + 1
    /\ isLoading' = FALSE
    /\ status' = ""
    /\ errorD' = NoError
    /\ places' = Null
    /\ sourcesD' = Null
    /\ selectedPlace' = NoPlace
    /\ isAudioLoading' = FALSE
    /\ isPlaying' = FALSE
    /\ audioLanguage' = "english"
    /\ audioContextRefD' = 0
    /\ audioBufferRef' = 0
    /\ audioSourceRef' = 0
    /\ geo' = "idle"
    /\ geoOld' = IF geo = "pending" THEN audioSourceRef ELSE geoOld
    /\ search' = Orphaned(search, {"pending"})
    /\ synth' = Orphaned(synth, {"pending", "decoding"})
    /\ srcBase' = nSrc
    /\ UNCHANGED <<sounding, endedPending, nSrc, convVars, capVars>>

\* The position arrives for an unmounted DiscoverView: its handleFetchPlaces stops
\* the source that view holds and issues a discovery request.
GeoOrphanResolve(latitude, longitude) ==
    /\ geoOld >= 0
    /\ Len(search) < MaxSearches
    /\ geoOld' = -1
    /\ search' = Append(search, [query |-> <<"near my current location at latitude ",
                                             latitude, ", longitude ", longitude>>,
                                 state |-> "orphan"])
    /\ IF geoOld > 0 /\ geoOld \in sounding
       THEN /\ sounding' = sounding \ {geoOld}
            /\ endedPending' = endedPending \cup {geoOld}
       ELSE UNCHANGED <<sounding, endedPending>>
    /\ UNCHANGED <<discState, discRefs, geo, synth, nSrc, nMounts, srcBase, convVars, capVars>>

\* The position request of an unmounted DiscoverView fails.
GeoOrphanReject ==
    /\ geoOld >= 0
    /\ geoOld' = -1
    /\ UNCHANGED <<discState, discRefs, discEnv, nMounts, srcBase, convVars, capVars>>

\* Discovery request n of an unmounted DiscoverView is answered or fails.
OrphanDiscoverySettles(n) ==
    /\ n \in 1..Len(search)
    /\ search[n].state = "orphan"
    /\ search' = [search EXCEPT ![n].state = "dropped"]
    /\ UNCHANGED <<discState, discRefs, geo, synth, sounding, endedPending, nSrc,
                   mountVars, convVars, capVars>>

\* Synthesis request n of an unmounted DiscoverView is answered or fails.
OrphanSynthSettles(n) ==
    /\ n \in 1..Len(synth)
    /\ synth[n].state = "orphan"
    /\ synth' = [synth EXCEPT ![n].state = "dropped"]
    /\ UNCHANGED <<discState, discRefs, geo, search, sounding, endedPending, nSrc,
                   mountVars, convVars, capVars>>


\* ------------------------------------------------------ microphone frames

\* onopen of session k, with the capture timeline its processing node is created on.
OnOpenNode(k) ==
    /\ OnOpen(k)
    /\ procCtx' = IF audioContextRef # 0 THEN [procCtx EXCEPT ![k] = audioContextRef]
                  ELSE procCtx
    /\ UNCHANGED <<nFrames, sends, dropped, discVars>>

\* onaudioprocess of processing node p, which is connected to a live microphone
\* track on a running timeline: the frame is encoded and, when sessionPromiseRef
\* holds a promise, the send is chained to that promise; the callback returns
\* without waiting. With a null ref the optional chaining skips the send.
AudioProcess(p) ==
    /\ p \in connectedProc /\ p \in connectedSrc /\ p \in liveTracks
    /\ procCtx[p] \in openInCtx
    /\ nFrames < MaxFrames
    /\ nFrames' = nFrames + 1
    /\ IF sessionPromiseRef # 0
       THEN /\ sends' = Append(sends, [frame |-> nFrames + 1, proc |-> p,
                                       to |-> sessionPromiseRef, state |-> "queued"])
            /\ UNCHANGED dropped
       ELSE /\ dropped' = dropped \cup {nFrames + 1}
            /\ UNCHANGED sends
    /\ UNCHANGED <<procCtx, convVars, discVars>>

\* The then-callback of send i runs once its promise has settled: sendRealtimeInput
\* passes the frame on (ok) or raises, and a rejected promise skips the callback;
\* nobody handles the failure.
SendSettle(i, ok) ==
    /\ i \in 1..Len(sends)
    /\ sends[i].state = "queued"
    /\ prom[sends[i].to] \in {"resolved", "rejected"}
    /\ ok => prom[sends[i].to] = "resolved" /\ sess[sends[i].to] = "open"
    /\ sends' = [sends EXCEPT ![i].state = IF ok THEN "sent" ELSE "failed"]
    /\ UNCHANGED <<nFrames, dropped, procCtx, convVars, discVars>>

\* ========================================================== specifications

\* The inbound messages of each specification.
LifeMsgs == {Message("", "", FALSE, 1, FALSE)}
AudioMsgs == {Message("", "", FALSE, a, n) : a \in 0..MaxDur, n \in BOOLEAN}
                 \ {Message("", "", FALSE, 0, FALSE)}
TurnMsgs == {Message(i, o, t, 0, FALSE) : i \in {"", "a", "b"}, o \in {"", "x"}, t \in BOOLEAN}
                 \ {Message("", "", FALSE, 0, FALSE)}

\* The state of a session that was started, granted the microphone, opened and
\* whose promise resolved, before any message.
InitActive ==
    /\ mounted = TRUE
    /\ isSessionActive = TRUE
    /\ transcripts = <<>>
    /\ error = NoError
    /\ sessionPromiseRef = 1
    /\ mediaStreamRef = 1
    /\ audioContextRef = 1
    /\ scriptProcessorRef = 1
    /\ mediaStreamSourceRef = 1
    /\ outputAudioContextRef = 1
    /\ outputNodeRef = 1
    /\ sourcesRef = {}
    /\ nextStartTimeRef = 0
    /\ currentInputTranscriptionRef = <<>>
    /\ currentOutputTranscriptionRef = <<>>
    /\ startPc = [k \in Starts |-> IF k = 1 THEN "requested" ELSE "none"]
    /\ liveTracks = {1}
    /\ openInCtx = {1}
    /\ openOutCtx = {1}
    /\ connectedProc = {1}
    /\ connectedSrc = {1}
    /\ sess = [k \in Starts |-> IF k = 1 THEN "open" ELSE "none"]
    /\ prom = [k \in Starts |-> IF k = 1 THEN "resolved" ELSE "none"]
    /\ stopAwait = {}
    /\ decoding = {}
    /\ sched = <<>>
    /\ stoppedSrc = {}
    /\ endedSrc = {}
    /\ currentTime = 0
    /\ now = 0
    /\ epoch = 0
    /\ nMsg = 0
    /\ thrown = FALSE
    /\ lastStop = <<>>
    /\ stopTick = FALSE

\* The life cycle of the conversation: starts, stops, session callbacks.
Init == InitConversation /\ InitDiscover /\ InitCapture

Next ==
    \/ StartConversation /\ UNCHANGED <<discVars, capVars>>
    \/ \E k \in Starts : GumResolve(k) /\ UNCHANGED <<discVars, capVars>>
    \/ \E k \in Starts, at \in {1, 2} : GumResolveCtxFail(k, at) /\ UNCHANGED <<discVars, capVars>>
    \/ \E k \in Starts : GumReject(k) /\ UNCHANGED <<discVars, capVars>>
    \/ \E k \in Starts : OnOpen(k) /\ UNCHANGED <<discVars, capVars>>
    \/ \E k \in Starts, outcome \in {"resolved", "rejected"} :
            ConnectSettle(k, outcome) /\ UNCHANGED <<discVars, capVars>>
    \/ \E k \in Starts : OnError(k) /\ UNCHANGED <<discVars, capVars>>
    \/ \E k \in Starts : OnClose(k) /\ UNCHANGED <<discVars, capVars>>
    \/ UserStop /\ UNCHANGED <<discVars, capVars>>
    \/ Unmount /\ UNCHANGED <<discVars, capVars>>
    \/ \E k \in Starts, m \in LifeMsgs :
            nMsg < MaxLifeMsgs /\ OnMessage(k, m) /\ UNCHANGED <<discVars, capVars>>
    \/ \E d \in decoding : DecodeDone(d) /\ UNCHANGED <<discVars, capVars>>
    \/ \E i \in 1..Len(sched) : SourceEnded(i) /\ UNCHANGED <<discVars, capVars>>

Spec == Init /\ [][Next]_vars

\* Starting and stopping alone: no inbound message.
NextStartStop ==
    \/ StartConversation /\ UNCHANGED <<discVars, capVars>>
    \/ \E k \in Starts : GumResolve(k) /\ UNCHANGED <<discVars, capVars>>
    \/ \E k \in Starts, at \in {1, 2} : GumResolveCtxFail(k, at) /\ UNCHANGED <<discVars, capVars>>
    \/ \E k \in Starts : GumReject(k) /\ UNCHANGED <<discVars, capVars>>
    \/ \E k \in Starts : OnOpen(k) /\ UNCHANGED <<discVars, capVars>>
    \/ \E k \in Starts, outcome \in {"resolved", "rejected"} :
            ConnectSettle(k, outcome) /\ UNCHANGED <<discVars, capVars>>
    \/ \E k \in Starts : OnError(k) /\ UNCHANGED <<discVars, capVars>>
    \/ \E k \in Starts : OnClose(k) /\ UNCHANGED <<discVars, capVars>>
    \/ UserStop /\ UNCHANGED <<discVars, capVars>>
    \/ Unmount /\ UNCHANGED <<discVars, capVars>>

SpecStartStop == Init /\ [][NextStartStop]_vars

\* ------------------------------------------------------- App: the two views

\* App's activeView state: ConversationView is mounted exactly while it is
\* 'converse', DiscoverView exactly while it is 'discover'.
activeView == IF mounted THEN "converse" ELSE "discover"

DiscoverShown == activeView = "discover"
ConverseShown == activeView = "converse"

\* The application after its first render: the discover view is shown and
\* ConversationView was not mounted yet.
InitApp ==
    /\ mounted = FALSE
    /\ isSessionActive = FALSE
    /\ transcripts = <<>>
    /\ error = NoError
    /\ sessionPromiseRef = 0
    /\ mediaStreamRef = 0
    /\ audioContextRef = 0
    /\ scriptProcessorRef = 0
    /\ mediaStreamSourceRef = 0
    /\ outputAudioContextRef = 0
    /\ outputNodeRef = 0
    /\ sourcesRef = {}
    /\ nextStartTimeRef = 0
    /\ currentInputTranscriptionRef = <<>>
    /\ currentOutputTranscriptionRef = <<>>
    /\ startPc = [k \in Starts |-> "none"]
    /\ liveTracks = {}
    /\ openInCtx = {}
    /\ openOutCtx = {}
    /\ connectedProc = {}
    /\ connectedSrc = {}
    /\ sess = [k \in Starts |-> "none"]
    /\ prom = [k \in Starts |-> "none"]
    /\ stopAwait = {}
    /\ decoding = {}
    /\ sched = <<>>
    /\ stoppedSrc = {}
    /\ endedSrc = {}
    /\ currentTime = 0
    /\ now = 0
    /\ epoch = 0
    /\ nMsg = 0
    /\ thrown = FALSE
    /\ lastStop = <<>>
    /\ stopTick = FALSE
    /\ InitDiscover
    /\ InitCapture

\* Click on the Converse button: ConversationView is mounted. The conversation
\* state of the model is that of one ConversationView, so the view is opened once
\* (no stop path ran yet).
ShowConverse ==
    /\ ~mounted
    /\ lastStop = <<>>
    /\ stopAwait = {}
    /\ mounted' = TRUE
    /\ UNCHANGED <<isSessionActive, transcripts, error, convRefs, convEnv>>

\* Click on the Discover button while the converse view is shown:
\* ConversationView is unmounted and its effect cleanup runs stopConversation().
ShowDiscover == Unmount

NextApp ==
    \/ ShowConverse /\ UNCHANGED <<discVars, capVars>>
    \/ ShowDiscover /\ UNCHANGED <<discVars, capVars>>
    \/ StartConversation /\ UNCHANGED <<discVars, capVars>>
    \/ \E k \in Starts : GumResolve(k) /\ UNCHANGED <<discVars, capVars>>
    \/ \E k \in Starts, at \in {1, 2} : GumResolveCtxFail(k, at) /\ UNCHANGED <<discVars, capVars>>
    \/ \E k \in Starts : GumReject(k) /\ UNCHANGED <<discVars, capVars>>
    \/ \E k \in Starts : OnOpen(k) /\ UNCHANGED <<discVars, capVars>>
    \/ \E k \in Starts, outcome \in {"resolved", "rejected"} :
            ConnectSettle(k, outcome) /\ UNCHANGED <<discVars, capVars>>
    \/ \E k \in Starts : OnError(k) /\ UNCHANGED <<discVars, capVars>>
    \/ \E k \in Starts : OnClose(k) /\ UNCHANGED <<discVars, capVars>>
    \/ UserStop /\ UNCHANGED <<discVars, capVars>>

SpecApp == InitApp /\ [][NextApp]_vars

\* Starting, stopping and the microphone frames: no inbound message.
NextCapture ==
    \/ StartConversation /\ UNCHANGED <<discVars, capVars>>
    \/ \E k \in Starts : GumResolve(k) /\ UNCHANGED <<discVars, capVars>>
    \/ \E k \in Starts, at \in {1, 2} :
            GumResolveCtxFail(k, at) /\ UNCHANGED <<discVars, capVars>>
    \/ \E k \in Starts : GumReject(k) /\ UNCHANGED <<discVars, capVars>>
    \/ \E k \in Starts : OnOpenNode(k)
    \/ \E k \in Starts, outcome \in {"resolved", "rejected"} :
            ConnectSettle(k, outcome) /\ UNCHANGED <<discVars, capVars>>
    \/ \E k \in Starts : OnError(k) /\ UNCHANGED <<discVars, capVars>>
    \/ \E k \in Starts : OnClose(k) /\ UNCHANGED <<discVars, capVars>>
    \/ UserStop /\ UNCHANGED <<discVars, capVars>>
    \/ Unmount /\ UNCHANGED <<discVars, capVars>>
    \/ \E p \in Starts : AudioProcess(p)
    \/ \E i \in 1..Len(sends), ok \in BOOLEAN : SendSettle(i, ok)

SpecCapture == Init /\ [][NextCapture]_vars


\* Conversations one after another (or overlapping): starts, stops and the inbound
\* messages of every session. The messages of session k carry the text and the
\* audio duration that tell them from those of the other sessions.
SessionText(k) == ToString(k)
SessionMsgs(k) == {Message(SessionText(k), "", TRUE, 0, FALSE), Message("", "", FALSE, k, FALSE)}

NextRestart ==
    \/ StartConversation /\ UNCHANGED <<discVars, capVars>>
    \/ \E k \in Starts : GumResolve(k) /\ UNCHANGED <<discVars, capVars>>
    \/ \E k \in Starts : OnOpen(k) /\ UNCHANGED <<discVars, capVars>>
    \/ \E k \in Starts : ConnectSettle(k, "resolved") /\ UNCHANGED <<discVars, capVars>>
    \/ \E k \in Starts : OnClose(k) /\ UNCHANGED <<discVars, capVars>>
    \/ UserStop /\ UNCHANGED <<discVars, capVars>>
    \/ \E k \in Starts : \E m \in SessionMsgs(k) :
            nMsg < MaxRestartMsgs /\ OnMessage(k, m) /\ UNCHANGED <<discVars, capVars>>
    \/ \E d \in decoding : DecodeDone(d) /\ UNCHANGED <<discVars, capVars>>
    \/ \E i \in 1..Len(sched) : SourceEnded(i) /\ UNCHANGED <<discVars, capVars>>

SpecRestart == Init /\ [][NextRestart]_vars

\* Inbound audio of one open session: scheduling, interruption, natural ends.
InitAudio == InitActive /\ InitDiscover /\ InitCapture

NextAudio ==
    \/ \E m \in AudioMsgs : nMsg < MaxAudioMsgs /\ OnMessage(1, m) /\ UNCHANGED <<discVars, capVars>>
    \/ \E d \in decoding : DecodeDone(d) /\ UNCHANGED <<discVars, capVars>>
    \/ \E i \in 1..Len(sched) : SourceEnded(i) /\ UNCHANGED <<discVars, capVars>>
    \/ Tick /\ UNCHANGED <<discVars, capVars>>

SpecAudio == InitAudio /\ [][NextAudio]_vars

\* Inbound audio of one open session and its teardown.
PlaybackMsgs == {m \in AudioMsgs : m.audio <= 1}

NextPlayback ==
    \/ \E m \in PlaybackMsgs :
            nMsg < MaxAudioMsgs /\ OnMessage(1, m) /\ UNCHANGED <<discVars, capVars>>
    \/ \E d \in decoding : DecodeDone(d) /\ UNCHANGED <<discVars, capVars>>
    \/ \E i \in 1..Len(sched) : SourceEnded(i) /\ UNCHANGED <<discVars, capVars>>
    \/ Tick /\ UNCHANGED <<discVars, capVars>>
    \/ UserStop /\ UNCHANGED <<discVars, capVars>>

SpecPlayback == InitAudio /\ [][NextPlayback]_vars

\* Inbound transcripts of one open session: fragments and turn completions.
NextTurns ==
    \/ \E m \in TurnMsgs : nMsg < MaxTurnMsgs /\ OnMessage(1, m) /\ UNCHANGED <<discVars, capVars>>
    \/ NowTick /\ UNCHANGED <<discVars, capVars>>

SpecTurns == InitAudio /\ [][NextTurns]_vars


\* The Discovery flow: searches, results, selection, narration.
SearchInputs == {<<>>, <<" ">>, <<"k">>, <<" ", "k", " ">>}

PlaceA == [name |-> "A", description |-> "about A",
           category |-> <<"N", "a", "t", "u", "r", "e">>, imageUrl |-> ""]
PlaceB == [name |-> "B", description |-> "about B",
           category |-> <<"P", "a", "r", "k">>, imageUrl |-> ""]

Chunk(wu, wt, mu, mt) == [webUri |-> wu, webTitle |-> wt, mapsUri |-> mu, mapsTitle |-> mt]

Responses ==
    { Response(TRUE, "array", <<PlaceA, PlaceB>>,
               <<Chunk("w1", "", "m1", "Map one"), Chunk("", "", "m2", "")>>),
      Response(TRUE, "array", <<>>, <<>>),
      Response(TRUE, "object", <<>>, <<Chunk("w1", "Web one", "", "")>>),
      Response(TRUE, "invalid", <<>>, <<Chunk("w1", "", "", "")>>),
      Response(TRUE, "empty", <<>>, <<>>),
      Response(FALSE, "empty", <<>>, <<Chunk("", "", "m1", "")>>) }

NextDiscover ==
    \/ \E input \in SearchInputs : HandleSearch(input)
    \/ HandleUseCurrentLocation
    \/ GeoResolve("12", "77")
    \/ \E pe \in BOOLEAN, message \in {"", "Timeout expired"} : GeoReject(pe, message)
    \/ \E n \in 1..Len(search), resp \in Responses : DiscoveryResolve(n, resp)
    \/ \E n \in 1..Len(search), message \in {"", "Network error"} : DiscoveryReject(n, message)
    \/ \E i \in 1..Len(places.val) : HandleSelectPlace(i)
    \/ \E lang \in {"english", "hindi"} : SetAudioLanguage(lang)
    \/ \E n \in 1..Len(synth) : SynthResolve(n)
    \/ \E n \in 1..Len(synth) : SynthDecoded(n)
    \/ \E n \in 1..Len(synth) : SynthFail(n)
    \/ ToggleAudio
    \/ \E id \in sounding \cup endedPending : NarrationEnded(id)
    \/ BackToList
    \/ StartNewSearch
    \/ TryAgain
    \/ RemountDiscover
    \/ GeoOrphanResolve("12", "77")
    \/ GeoOrphanReject
    \/ \E n \in 1..Len(search) : OrphanDiscoverySettles(n)
    \/ \E n \in 1..Len(synth) : OrphanSynthSettles(n)

SpecDiscover == Init /\ [][NextDiscover]_vars


\* The search side of the Discovery flow: searches, their outcomes, selection and
\* the way back; the synthesis requests that selections issue stay unanswered.
NextSearch ==
    \/ \E input \in SearchInputs : HandleSearch(input)
    \/ HandleUseCurrentLocation
    \/ GeoResolve("12", "77")
    \/ \E pe \in BOOLEAN, message \in {"", "Timeout expired"} : GeoReject(pe, message)
    \/ \E n \in 1..Len(search), resp \in Responses : DiscoveryResolve(n, resp)
    \/ \E n \in 1..Len(search), message \in {"", "Network error"} : DiscoveryReject(n, message)
    \/ \E i \in 1..Len(places.val) : HandleSelectPlace(i)
    \/ BackToList
    \/ StartNewSearch
    \/ TryAgain
    \/ RemountDiscover
    \/ GeoOrphanResolve("12", "77")
    \/ GeoOrphanReject
    \/ \E n \in 1..Len(search) : OrphanDiscoverySettles(n)

SpecSearch == Init /\ [][NextSearch]_vars

\* The calls settle: a pending position request is answered or fails, and so
\* is every pending discovery request.
SearchCallsSettle ==
    /\ WF_vars(GeoResolve("12", "77")
                 \/ \E pe \in BOOLEAN, message \in {"", "Timeout expired"} : GeoReject(pe, message))
    /\ \A n \in 1..(MaxSearches + 1) :
          WF_vars((\E resp \in Responses : DiscoveryResolve(n, resp))
                    \/ \E message \in {"", "Network error"} : DiscoveryReject(n, message))

SpecSearchFair == Init /\ [][NextSearch]_vars /\ SearchCallsSettle

\* ================================================================== claims

\* Sessions that were requested and whose close was neither asked nor reported.
LiveSessions == {k \in Starts : sess[k] \in {"connecting", "open"}}

\* C1: at most one live session is open and not yet closed at any time, and at
\* most one microphone stream is held; a start while a session exists (also before
\* its open callback) opens no second session and takes no second stream.
C1_OneSessionOneStream ==
    /\ Cardinality(LiveSessions) <= 1
    /\ Cardinality(liveTracks) <= 1


\* A stopConversation call finishes in this step.
StopFinishes == stopTick' # stopTick

\* The orders in which a finished stop path can have run its steps.
StopOrders ==
    { <<"inactive", "release">>,
      <<"inactive", "close", "release">>,
      <<"inactive", "closeError", "release">> }

\* What the refs hold is released and forgotten.
HeldReleased ==
    /\ sourcesRef = {}
    /\ scriptProcessorRef = 0
    /\ mediaStreamSourceRef = 0
    /\ audioContextRef = 0
    /\ outputAudioContextRef = 0
    /\ mediaStreamRef = 0

\* No capture node is connected, no timeline is open, no microphone track is live.
NothingLive ==
    /\ connectedProc = {}
    /\ connectedSrc = {}
    /\ openInCtx = {}
    /\ openOutCtx = {}
    /\ liveTracks = {}

\* C2: every execution of the stop path marks the session inactive, then asks the
\* handle to close (an exception is swallowed), then releases every local
\* resource; when it has finished the segment set is empty, the capture and
\* processing nodes are disconnected and null, both timelines are closed and
\* null, and every microphone track is stopped.
C2_StopReleasesEverything ==
    [][StopFinishes => (lastStop' \in StopOrders /\ HeldReleased' /\ NothingLive')]_vars

\* C2, for the resources the refs hold when the stop path releases them: the steps
\* run in order, the held nodes are disconnected, the held timelines closed, the
\* held stream stopped, and every ref is null afterwards.
C2_StopReleasesHeld ==
    [][StopFinishes =>
          /\ lastStop' \in StopOrders
          /\ HeldReleased'
          /\ sourcesRef \subseteq stoppedSrc'
          /\ scriptProcessorRef \notin connectedProc'
          /\ mediaStreamSourceRef \notin connectedSrc'
          /\ audioContextRef \notin openInCtx'
          /\ outputAudioContextRef \notin openOutCtx'
          /\ mediaStreamRef \notin liveTracks']_vars

\* No callback and no promise of the conversation is pending.
Settled ==
    /\ \A k \in Starts :
          /\ startPc[k] # "gum"
          /\ prom[k] # "pending"
          /\ sess[k] \notin {"connecting", "closing"}
    /\ stopAwait = {}
    /\ decoding = {}

\* One start was made, none of its steps failed and its session request was not
\* rejected.
OneCleanStart ==
    /\ Cardinality({k \in Starts : startPc[k] # "none"}) = 1
    /\ \A k \in Starts : startPc[k] \in {"none", "gum", "requested"}
    /\ \A k \in Starts : prom[k] # "rejected"

\* C3: the stop path may run at any point of a start that has not finished
\* without raising an error, and once everything pending has settled no
\* microphone track is live, no timeline is open and no live session is open.
\* Stated for the stop path the unmount runs (no start can follow it) and for a
\* single start that meets no failure.
C3_StopDuringStartLeavesNothing ==
    (~mounted /\ Settled /\ OneCleanStart) =>
        /\ ~thrown
        /\ liveTracks = {}
        /\ openInCtx = {}
        /\ openOutCtx = {}
        /\ LiveSessions = {}

\* C4: a transport error or a remote close of the active session runs the stop
\* path and shows the generic conversation message, for the error callback and
\* for the close callback alike.
C4_ErrorAndCloseShowGenericMessage ==
    [][\A k \in Starts :
          (isSessionActive /\ sess[k] = "open" /\ (OnError(k) \/ OnClose(k))) =>
              /\ error' = ConversationErrorMsg
              /\ ~isSessionActive'
              /\ StopFinishes \/ stopAwait' # {}]_vars

\* C4, for the error callback alone.
C4_ErrorShowsGenericMessage ==
    [][\A k \in Starts :
          (isSessionActive /\ sess[k] = "open" /\ OnError(k)) =>
              /\ error' = ConversationErrorMsg
              /\ ~isSessionActive'
              /\ StopFinishes \/ stopAwait' # {}]_vars

\* C5: the live session is requested only after the microphone was granted and
\* both timelines were created; if the microphone request fails, no session is
\* ever requested for that start, the session stays inactive and the
\* start-failure message is shown.
C5_SessionOnlyAfterAudioSetup ==
    [][\A k \in Starts :
          /\ (sess[k] = "none" /\ sess'[k] # "none") =>
                 /\ startPc[k] = "gum"
                 /\ k \in liveTracks' /\ k \in openInCtx' /\ k \in openOutCtx'
                 /\ mediaStreamRef' = k /\ audioContextRef' = k /\ outputAudioContextRef' = k
          /\ startPc'[k] = "gumFailed" => (sess'[k] = "none" /\ prom'[k] = "none")
          /\ (startPc[k] = "gum" /\ startPc'[k] = "gumFailed") =>
                 /\ error' = StartFailedMsg
                 /\ isSessionActive' = isSessionActive
                 /\ sess' = sess /\ prom' = prom
                 /\ liveTracks' = liveTracks]_vars

\* C5 witness: the microphone request of a start failed, the message is shown, the
\* session is inactive and nothing was requested.
C5_Witness ==
    /\ startPc[1] = "gumFailed"
    /\ error = StartFailedMsg
    /\ ~isSessionActive
    /\ sess[1] = "none"

\* The end of segment i on the output timeline as the watermark counts it.
SegEnd(i) == sched[i].start + sched[i].dur

\* Segment j entered onmessage after the last interruption before its scheduling.
EnteredSinceInterruption(j) == sched[j].entryEpoch = sched[j].epoch

\* C6: a segment is started at the later of the playback clock and the end of the
\* previously scheduled segment and the watermark then advances by its duration:
\* of two segments scheduled back to back with no interruption in between, the
\* second starts no earlier than the first's start plus its duration, exactly
\* there when the clock has not passed that point, and never later than the
\* later of that point and the clock.
C6_BackToBackScheduling ==
    /\ \A j \in 2..Len(sched) :
          sched[j - 1].epoch = sched[j].epoch =>
              /\ sched[j].start >= SegEnd(j - 1)
              /\ sched[j].clock <= SegEnd(j - 1) => sched[j].start = SegEnd(j - 1)
              /\ sched[j].start <= Max(SegEnd(j - 1), sched[j].clock)
              /\ (EnteredSinceInterruption(j) /\ sched[j].entryClock = sched[j].clock) =>
                     sched[j].start = Max(SegEnd(j - 1), sched[j].clock)
    /\ \A j \in 1..Len(sched) :
          EnteredSinceInterruption(j) => sched[j].start >= sched[j].entryClock
    /\ (sched # <<>> /\ sched[Len(sched)].epoch = epoch) =>
          /\ nextStartTimeRef >= SegEnd(Len(sched))
          /\ nextStartTimeRef <= Max(SegEnd(Len(sched)), currentTime)

\* C6 witness: two segments were scheduled back to back, the second one after the
\* clock had advanced, and it starts exactly where the first one ends.
C6_Witness ==
    /\ Len(sched) = 2
    /\ sched[1].epoch = sched[2].epoch
    /\ sched[1].dur = 2
    /\ sched[2].entryClock = 1
    /\ sched[2].start = SegEnd(1)
    /\ nextStartTimeRef = SegEnd(2)

\* C7: the step that processes an interruption stops every segment of the set,
\* empties the set and zeroes the watermark together; the next segment that
\* arrives after the interruption starts at or after the playback clock read on
\* its arrival and no later than the clock at its scheduling, whatever the
\* watermark was before the interruption.
C7_InterruptionResetsTogether ==
    [][/\ epoch' # epoch =>
              /\ sourcesRef' = {}
              /\ nextStartTimeRef' = 0
              /\ sourcesRef \subseteq stoppedSrc'
              /\ \A i \in 1..Len(sched') : i \in stoppedSrc' \cup endedSrc'
       /\ \A j \in 1..Len(sched') :
              (sched'[j].entryEpoch = sched'[j].epoch /\ sched'[j].epoch > 0) =>
                  /\ sched'[j].start >= sched'[j].entryClock
                  /\ (j > 1 => sched'[j - 1].epoch < sched'[j].epoch) =>
                         sched'[j].start <= sched'[j].clock]_vars

\* C7 witness: a segment was stopped by an interruption when the watermark stood
\* at its end, and the next segment, arrived after the interruption, starts at the
\* clock, before that stale watermark.
C7_Witness ==
    /\ Len(sched) = 2
    /\ 1 \in stoppedSrc
    /\ sched[1].epoch < sched[2].epoch
    /\ EnteredSinceInterruption(2)
    /\ sched[2].start = sched[2].entryClock
    /\ sched[2].start < SegEnd(1)
    /\ sched[2].start > 0

\* The buffer buf after the fragment frag of a message ("" : none) was appended.
Appended(buf, frag) == IF frag = "" THEN buf ELSE buf \o <<frag>>

\* 1 for a non-empty buffer, 0 for an empty one.
NonEmpty(buf) == IF buf = <<>> THEN 0 ELSE 1

\* C8: fragments are appended to the input and output buffers in arrival order; a
\* turn completion grows the log by the number of non-empty buffers (0, 1 or 2),
\* the user entry before the model entry, each with the whole text of its
\* buffer, and empties both buffers; an empty input buffer with a non-empty output
\* buffer appends exactly one entry, of the model.
C8_TurnCompletionAppendsBuffers ==
    [][\A m \in TurnMsgs :
          OnMessage(1, m) =>
              LET input == Appended(currentInputTranscriptionRef, m.inT)
                  output == Appended(currentOutputTranscriptionRef, m.outT)
                  old == Len(transcripts)
                  n == NonEmpty(input) + NonEmpty(output)
              IN  IF m.turn
                  THEN /\ Len(transcripts') = old + n
                       /\ SubSeq(transcripts', 1, old) = transcripts
                       /\ input # <<>> =>
                              /\ transcripts'[old + 1].speaker = "user"
                              /\ transcripts'[old + 1].text = input
                       /\ output # <<>> =>
                              /\ transcripts'[old + n].speaker = "model"
                              /\ transcripts'[old + n].text = output
                       /\ (input = <<>> /\ output # <<>>) =>
                              /\ Len(transcripts') = old + 1
                              /\ transcripts'[old + 1].speaker = "model"
                       /\ currentInputTranscriptionRef' = <<>>
                       /\ currentOutputTranscriptionRef' = <<>>
                  ELSE /\ transcripts' = transcripts
                       /\ currentInputTranscriptionRef' = input
                       /\ currentOutputTranscriptionRef' = output]_vars

\* C8 witness: a turn with two input fragments and one output fragment appended a
\* user entry and a model entry, and a turn with output alone appended one model
\* entry.
C8_Witness ==
    /\ Len(transcripts) = 3
    /\ transcripts[1].speaker = "user"
    /\ transcripts[1].text = <<"a", "b">>
    /\ transcripts[2].speaker = "model"
    /\ transcripts[3].speaker = "model"
    /\ transcripts[3].text = <<"x">>
    /\ currentInputTranscriptionRef = <<>>
    /\ currentOutputTranscriptionRef = <<>>

\* C9: the identifiers of the entries of the transcript log are pairwise distinct
\* and strictly increasing in log order, also when turn completions read the same
\* clock value or values one tick apart.
C9_IdsStrictlyIncreasing ==
    \A i, j \in 1..Len(transcripts) :
        i < j => transcripts[i].id < transcripts[j].id

\* C9, within the entries of one turn completion: the user entry's identifier is
\* below the model entry's.
C9_IdsIncreaseWithinTurn ==
    [][\A m \in TurnMsgs :
          (OnMessage(1, m) /\ Len(transcripts') = Len(transcripts) + 2) =>
              transcripts'[Len(transcripts) + 1].id < transcripts'[Len(transcripts) + 2].id]_vars

\* The mounted DiscoverView issues a discovery request in this step.
RequestIssued == Len(search') > Len(search) /\ search'[Len(search')].state = "pending"

\* C10: every search, by submitted text or by a resolved geolocation, clears the
\* results, the error, the selection and the sources and stops and discards the
\* narration audio before the discovery request is issued: when the request is
\* issued all five are empty and no narration source is sounding.
C10_SearchClearsAndStopsNarration ==
    [][RequestIssued =>
          /\ search'[Len(search')].state = "pending"
          /\ places'.null
          /\ errorD' = NoError
          /\ selectedPlace' = NoPlace
          /\ sourcesD'.null
          /\ audioBufferRef' = 0 /\ audioSourceRef' = 0 /\ ~isPlaying'
          /\ sounding' = {}]_vars

\* C10, for the narration source that audioSourceRef holds: the five are empty
\* when the request is issued and the held source no longer sounds.
C10_SearchClearsHeldNarration ==
    [][RequestIssued =>
          /\ search'[Len(search')].state = "pending"
          /\ places'.null
          /\ errorD' = NoError
          /\ selectedPlace' = NoPlace
          /\ sourcesD'.null
          /\ audioBufferRef' = 0 /\ audioSourceRef' = 0 /\ ~isPlaying'
          /\ audioSourceRef # 0 => audioSourceRef \notin sounding']_vars

\* C11: returning from the detail page to the list, and starting a new search
\* from the list, each reset the narration: afterwards no narration is playing
\* and no narration audio is loaded.
C11_LeavingResetsNarration ==
    [][(BackToList \/ StartNewSearch) =>
          /\ sounding' = {}
          /\ ~isPlaying'
          /\ audioBufferRef' = 0
          /\ audioSourceRef' = 0]_vars

\* C11, for a synthesis request in flight: its result is not loaded as narration
\* audio while no place is selected.
C11_AbandonedResultNeverLoaded ==
    selectedPlace = NoPlace => audioBufferRef = 0

\* This step issues one synthesis request, for text in language lang.
SynthIssued(text, lang) ==
    /\ Len(synth') = Len(synth) + 1
    /\ SubSeq(synth', 1, Len(synth)) = synth
    /\ synth'[Len(synth')].text = text
    /\ synth'[Len(synth')].lang = lang
    /\ synth'[Len(synth')].state = "pending"

\* C12: selecting a place issues a synthesis request for its description in the
\* chosen language; changing the language while a place is selected stops and
\* discards the existing narration audio and issues a new request in the new
\* language, and the result of the newest request becomes the narration audio.
C12_SelectAndLanguageSynthesize ==
    [][/\ \A i \in 1..Len(places.val) :
              HandleSelectPlace(i) =>
                  SynthIssued(places.val[i].description, audioLanguage)
       /\ \A lang \in {"english", "hindi"} :
              SetAudioLanguage(lang) =>
                  /\ SynthIssued(selectedPlace.description, lang)
                  /\ audioBufferRef' = 0 /\ audioSourceRef' = 0 /\ ~isPlaying'
                  /\ sounding' = {}
       /\ \A n \in 1..Len(synth) :
              (SynthDecoded(n) /\ n = Len(synth)) => audioBufferRef' = n]_vars

\* C12, for the narration source that audioSourceRef holds.
C12_SelectAndLanguageSynthesizeHeld ==
    [][/\ \A i \in 1..Len(places.val) :
              HandleSelectPlace(i) =>
                  SynthIssued(places.val[i].description, audioLanguage)
       /\ \A lang \in {"english", "hindi"} :
              SetAudioLanguage(lang) =>
                  /\ SynthIssued(selectedPlace.description, lang)
                  /\ audioBufferRef' = 0 /\ audioSourceRef' = 0 /\ ~isPlaying'
                  /\ audioSourceRef # 0 => audioSourceRef \notin sounding'
       /\ \A n \in 1..Len(synth) :
              (SynthDecoded(n) /\ n = Len(synth)) => audioBufferRef' = n]_vars

\* C13: at most one narration source is playing at any time, over any sequence of
\* toggles, selections, language switches, searches and playback-ended events.
C13_AtMostOneSourcePlaying == Cardinality(sounding) <= 1

\* C13, toggle by toggle, for the source that audioSourceRef holds: a toggle while
\* the playing flag is set stops the held source, a toggle while it is clear with
\* audio loaded starts one new source, and the end of the held source clears the
\* flag and the ref so that a further toggle starts a source again.
C13_ToggleHeldSource ==
    [][/\ (ToggleAudio /\ isPlaying) =>
              /\ audioSourceRef \notin sounding'
              /\ sounding' \subseteq sounding
       /\ (ToggleAudio /\ ~isPlaying) =>
              /\ audioBufferRef # 0
              /\ Cardinality(sounding' \ sounding) = 1
              /\ audioSourceRef' \in sounding' \ sounding
              /\ isPlaying'
       /\ \A id \in sounding :
              (NarrationEnded(id) /\ id = audioSourceRef) =>
                  /\ ~isPlaying' /\ audioSourceRef' = 0 /\ audioBufferRef' = audioBufferRef]_vars

\* The error panel is shown: an error is set and loading is cleared.
ErrorShown == errorD # NoError /\ ~isLoading /\ View = "error"

\* The position request fails in this step.
GeoFails == geo = "pending" /\ geo' = "idle" /\ search' = search /\ nMounts' = nMounts

\* Discovery request n fails in this step.
DiscoveryFails(n) == search[n].state = "pending" /\ search'[n].state = "failed"

\* C14: a geolocation failure and a discovery failure each end in the error state
\* with loading cleared; dismissing the error leads to the initial state (no
\* error, no results, no selected place, the search form shown) and issues no
\* geolocation, discovery or synthesis request.
C14_FailuresShowDismissibleError ==
    [][/\ GeoFails => ErrorShown'
       /\ \A n \in 1..Len(search) : DiscoveryFails(n) => ErrorShown'
       /\ TryAgain =>
              /\ errorD' = NoError
              /\ places'.null
              /\ selectedPlace' = NoPlace
              /\ ~isLoading'
              /\ View' = "form"
              /\ geo' = geo /\ search' = search /\ synth' = synth]_vars

\* C14 witness: a search by geolocation failed in discovery, its error panel was
\* dismissed and the search form is shown again.
C14_Witness ==
    /\ Len(search) = 1
    /\ search[1].state = "failed"
    /\ search[1].query # <<"k">>
    /\ geo = "idle"
    /\ View = "form"
    /\ errorD = NoError
    /\ places.null

\* The response has no fenced JSON block, or an empty one, or one that holds no JSON.
BadFormat(resp) == ~resp.fenced \/ resp.content \in {"empty", "invalid"}

\* C15: for a response without a fenced JSON block, or whose block is empty or
\* holds no JSON, discovery fails with the fixed format error and returns neither
\* places nor sources; the Discovery flow ends in the error state, with that
\* message and no results or sources.
C15_BadFormatFailsWithoutResults ==
    [][\A n \in 1..Len(search), resp \in Responses :
          (BadFormat(resp) /\ DiscoveryResolve(n, resp)) =>
              /\ ~getNearbyPlaces(resp).ok
              /\ getNearbyPlaces(resp).message = FormatErrorMsg
              /\ getNearbyPlaces(resp).places = <<>>
              /\ getNearbyPlaces(resp).sources = <<>>
              /\ DiscoveryFails(n)
              /\ errorD' = FormatErrorMsg
              /\ ErrorShown'
              /\ places'.null
              /\ sourcesD'.null]_vars

\* C15 witness: a search ended in the error state with the format error and no
\* results.
C15_Witness ==
    /\ Len(search) = 1
    /\ search[1].state = "failed"
    /\ errorD = FormatErrorMsg
    /\ View = "error"
    /\ places.null
    /\ sourcesD.null

\* Words categories are made of, and the categories made of up to two of them.
CategoryWords ==
    { <<"N", "a", "t", "u", "r", "e">>,
      <<"A", "R", "T">>,
      <<"F", "o", "o", "d">>,
      <<"H", "i", "s", "t", "o", "r", "y">>,
      <<"a", "r", "c", "h", "i", "t", "e", "c", "t", "u", "r", "e">>,
      <<"P", "a", "r", "k">>,
      <<"O", "t", "h", "e", "r">>,
      <<" ">> }
TestCategories == {w1 \o w2 : w1, w2 \in CategoryWords \cup {<<>>}}

\* The illustration the claim describes for a category: the generic one when the
\* category is missing; else that of the first word of nature, architecture,
\* history, food, art that the category contains in any letter case; else the
\* generic one.
ExpectedImage(category) ==
    LET has(k) == \E i \in 1..Len(category) :
                      /\ i + Len(CategoryKeys[k]) - 1 <= Len(category)
                      /\ \A j \in 1..Len(CategoryKeys[k]) :
                             Lower(category[i + j - 1]) = CategoryKeys[k][j]
    IN  IF category = <<>> THEN CategoryImages[6]
        ELSE IF has(1) THEN CategoryImages[1]
        ELSE IF has(2) THEN CategoryImages[2]
        ELSE IF has(3) THEN CategoryImages[3]
        ELSE IF has(4) THEN CategoryImages[4]
        ELSE IF has(5) THEN CategoryImages[5]
        ELSE CategoryImages[6]

\* C16: for a fenced valid JSON array of N place records the Discovery flow ends
\* with exactly N place entries in the same order, each with a non-empty
\* illustration chosen by case-insensitive substring match of its category
\* against nature, architecture, history, food, art in that order, first match
\* wins, and the generic illustration for a missing or unmatched category.
C16_ArrayGivesDecoratedPlaces ==
    [][\A n \in 1..Len(search), resp \in Responses :
              (resp.fenced /\ resp.content = "array" /\ DiscoveryResolve(n, resp)) =>
                  /\ ~places'.null
                  /\ Len(places'.val) = Len(resp.items)
                  /\ \A i \in 1..Len(resp.items) :
                         /\ places'.val[i] =
                                [resp.items[i] EXCEPT
                                    !.imageUrl = ExpectedImage(resp.items[i].category)]
                         /\ places'.val[i].imageUrl # ""
                  /\ errorD' = NoError
                  /\ View' = "list"
                  /\ \A c \in TestCategories :
                         /\ getCategoryImage(c) = ExpectedImage(c)
                         /\ getCategoryImage(c) # ""]_vars

\* C16 witness: the list shows the two places of a response in their order, the
\* first with the nature illustration, the second with the generic one.
C16_Witness ==
    /\ View = "list"
    /\ Len(places.val) = 2
    /\ places.val[1].name = "A"
    /\ places.val[1].imageUrl = CategoryImages[1]
    /\ places.val[2].name = "B"
    /\ places.val[2].imageUrl = CategoryImages[6]

\* The discovery requests that were issued and are not answered yet, whichever
\* DiscoverView issued them.
InFlight == {n \in 1..Len(search) : search[n].state \in {"pending", "orphan"}}

\* The requests of the mounted DiscoverView that are not answered yet.
InFlightOfView == {n \in 1..Len(search) : search[n].state = "pending"}

\* The searches the mounted DiscoverView started.
SearchesOfView == {n \in 1..Len(search) : search[n].state \in {"pending", "done", "failed"}}

\* Request n is answered in this step and places or sources of the view change.
AppliedToView(n) ==
    /\ search[n].state = "pending"
    /\ search'[n].state \in {"done", "failed"}
    /\ places' # places \/ sourcesD' # sourcesD

\* The places and sources the view shows stem from its latest search.
ShownFromLatest ==
    /\ ~places.null =>
          \E n \in SearchesOfView : /\ \A k \in SearchesOfView : k <= n
                                    /\ search[n].state = "done"
    /\ ~sourcesD.null =>
          \E n \in SearchesOfView : /\ \A k \in SearchesOfView : k <= n
                                    /\ search[n].state \in {"done", "failed"}

\* C17: at most one discovery request is in flight at any time; an answer changes
\* the places and sources of the view only when no newer search was started after
\* its request; the places and sources shown stem from the latest search.
C17_OneRequestLatestShown ==
    [][/\ Cardinality(InFlight') <= 1
       /\ \A n \in 1..Len(search) : AppliedToView(n) => \A k \in SearchesOfView : k <= n
       /\ ShownFromLatest']_vars

\* C17, for the requests of the mounted DiscoverView: at most one of them is in
\* flight, none while a position request is pending, an answer is applied only to
\* the latest search, and what is shown stems from the latest search.
C17_OneRequestPerView ==
    [][/\ Cardinality(InFlightOfView') <= 1
       /\ geo' = "pending" => InFlightOfView' = {}
       /\ \A n \in 1..Len(search) : AppliedToView(n) => \A k \in SearchesOfView : k <= n
       /\ ShownFromLatest']_vars

\* The grounding chunks the source list is tested on: with and without a web part
\* and a maps part, each with and without a title.
TestChunks ==
    {[webUri |-> w[1], webTitle |-> w[2], mapsUri |-> m[1], mapsTitle |-> m[2]] :
        w \in {<<"", "">>, <<"w1", "">>, <<"w1", "Web one">>},
        m \in {<<"", "">>, <<"m1", "">>, <<"m1", "Map one">>}}
TestChunkLists ==
    {<<>>} \cup {<<c>> : c \in TestChunks} \cup {<<c, d>> : c, d \in TestChunks}

\* The number of sources the chunks before chunk i contribute.
UrisBefore(chunks, i) ==
    Cardinality({j \in 1..(i - 1) : chunks[j].webUri # ""})
        + Cardinality({j \in 1..(i - 1) : chunks[j].mapsUri # ""})

\* out is the source list the claim describes for chunks.
SourcesAsClaimed(chunks, out) ==
    /\ Len(out) = UrisBefore(chunks, Len(chunks) + 1)
    /\ \A i \in 1..Len(chunks) :
          LET at == UrisBefore(chunks, i)
              web == IF chunks[i].webUri # "" THEN 1 ELSE 0
          IN  /\ chunks[i].webUri # "" =>
                     out[at + 1] = [uri |-> chunks[i].webUri,
                                    title |-> IF chunks[i].webTitle # ""
                                              THEN chunks[i].webTitle ELSE "Web Source",
                                    type |-> "web"]
              /\ chunks[i].mapsUri # "" =>
                     out[at + web + 1] = [uri |-> chunks[i].mapsUri,
                                          title |-> IF chunks[i].mapsTitle # ""
                                                    THEN chunks[i].mapsTitle ELSE "Map Location",
                                          type |-> "maps"]

\* C18: the source list of a discovery answer is the concatenation, in chunk order,
\* of each chunk's web source (when its web uri is non-empty) followed by its maps
\* source (when its maps uri is non-empty), tagged web and maps, with the titles
\* "Web Source" and "Map Location" where a title is missing; the view shows this
\* list when the answer holds a JSON array.
C18_SourcesFlattenChunksInOrder ==
    [][\A n \in 1..Len(search), resp \in Responses :
           (resp.fenced /\ resp.content = "array" /\ DiscoveryResolve(n, resp)) =>
               /\ ~sourcesD'.null
               /\ SourcesAsClaimed(resp.chunks, sourcesD'.val)
               /\ \A chunks \in TestChunkLists :
                      SourcesAsClaimed(chunks, FlatMapSources(chunks))]_vars

\* C18 witness: the list is shown with the three sources of a two-chunk answer:
\* the web source of the first chunk under the default title, its maps source, and
\* the maps source of the second chunk under the default title.
C18_Witness ==
    /\ View = "list"
    /\ ~sourcesD.null
    /\ sourcesD.val = <<[uri |-> "w1", title |-> "Web Source", type |-> "web"],
                        [uri |-> "m1", title |-> "Map one", type |-> "maps"],
                        [uri |-> "m2", title |-> "Map Location", type |-> "maps"]>>

\* Processing node p can capture: it is connected to a live microphone track on a
\* running timeline.
Capturing(p) ==
    /\ p \in connectedProc /\ p \in connectedSrc /\ p \in liveTracks
    /\ procCtx[p] \in openInCtx

\* This step captures a frame and chains its send to a session promise.
FrameHanded ==
    /\ Len(sends') = Len(sends) + 1
    /\ sends'[Len(sends')].frame = nFrames'
    /\ sends'[Len(sends')].state = "queued"
    /\ SubSeq(sends', 1, Len(sends)) = sends
    /\ dropped' = dropped

\* Send i fails in this step.
SendFails(i) == sends[i].state = "queued" /\ sends'[i].state = "failed"

\* C19: every captured microphone frame is encoded and handed to the session, the
\* capture callback not waiting for the send; the next frame is captured whether
\* the earlier sends are completed, pending or failed; a failed send neither stops
\* the capture nor ends the session.
C19_EveryFrameHandedNoWaiting ==
    [][/\ nFrames' = nFrames + 1 => FrameHanded
       /\ \A p \in Starts : Capturing(p) /\ nFrames < MaxFrames => ENABLED AudioProcess(p)
       /\ \A i \in 1..Len(sends) :
              SendFails(i) => /\ UNCHANGED <<convVars, nFrames, dropped, procCtx>>
                              /\ \A p \in Starts : Capturing(p)' = Capturing(p)]_vars

\* C19, for the processing node that scriptProcessorRef holds: each of its frames
\* is handed to the session promise that sessionPromiseRef holds, whatever became
\* of the earlier sends, and a failed send changes nothing else.
C19_HeldNodeFramesHanded ==
    [][/\ (nFrames' = nFrames + 1 /\ Capturing(scriptProcessorRef)
              /\ \A p \in Starts : Capturing(p) => p = scriptProcessorRef) => FrameHanded
       /\ \A p \in Starts : Capturing(p) /\ nFrames < MaxFrames => ENABLED AudioProcess(p)
       /\ \A i \in 1..Len(sends) :
              SendFails(i) => /\ UNCHANGED <<convVars, nFrames, dropped, procCtx>>
                              /\ \A p \in Starts : Capturing(p)' = Capturing(p)]_vars

\* Synthesis request n, still unanswered, fails in this step: its response carries
\* no audio payload (or the call itself fails) and getTextToSpeech throws.
SynthesisFails(n) == synth[n].state = "pending" /\ synth'[n].state = "failed"

\* C20: when the synthesis response carries no audio payload while the detail page
\* is shown, the page ends in the narration-unavailable sub-state: the loading flag
\* of the narration is cleared, no narration audio is loaded, the place stays
\* selected and the error state of the Discovery flow is not entered.
C20_NoPayloadEndsUnavailable ==
    [][\A n \in 1..Len(synth) :
           (View = "detail" /\ SynthesisFails(n)) =>
               /\ ~isAudioLoading'
               /\ audioBufferRef' = 0
               /\ selectedPlace' = selectedPlace
               /\ errorD' = NoError
               /\ View' = "detail"]_vars

\* C20, for what the failure itself does: it clears the loading flag, loads
\* nothing, keeps the selection and sets no error.
C20_FailureLoadsNothing ==
    [][\A n \in 1..Len(synth) :
           (View = "detail" /\ SynthesisFails(n)) =>
               /\ ~isAudioLoading'
               /\ audioBufferRef' = audioBufferRef
               /\ selectedPlace' = selectedPlace
               /\ errorD' = NoError
               /\ View' = "detail"]_vars

\* The start made last (0 before the first start).
LatestStart ==
    IF \E k \in Starts : startPc[k] # "none"
    THEN CHOOSE k \in Starts : startPc[k] # "none" /\ \A j \in Starts : startPc[j] # "none" => j <= k
    ELSE 0

\* The log holds only entries of the conversation started last, and once its
\* session is requested the segment set holds only segments of that session.
OnlyLatestSession ==
    /\ \A i \in 1..Len(transcripts) :
           \A j \in 1..Len(transcripts[i].text) :
               transcripts[i].text[j] = SessionText(LatestStart)
    /\ (LatestStart # 0 /\ startPc[LatestStart] = "requested") =>
           \A i \in sourcesRef : sched[i].dur = LatestStart

\* C21: a start clears the error, the log and both transcript buffers; once the
\* microphone is granted it zeroes the watermark and empties the segment set in
\* the step that requests the live session; the log and the set of the new session
\* hold no entry and no segment of an earlier session.
C21_StartClearsEarlierSession ==
    [][/\ StartConversation =>
              /\ error' = NoError /\ transcripts' = <<>>
              /\ currentInputTranscriptionRef' = <<>> /\ currentOutputTranscriptionRef' = <<>>
       /\ \A k \in Starts :
              (sess[k] = "none" /\ sess'[k] = "connecting") =>
                  nextStartTimeRef' = 0 /\ sourcesRef' = {}
       /\ OnlyLatestSession']_vars

\* C21, for what the start itself does: the clearing at the click and the reset in
\* the step that requests the session.
C21_StartClears ==
    [][/\ StartConversation =>
              /\ error' = NoError /\ transcripts' = <<>>
              /\ currentInputTranscriptionRef' = <<>> /\ currentOutputTranscriptionRef' = <<>>
       /\ \A k \in Starts :
              (sess[k] = "none" /\ sess'[k] = "connecting") =>
                  nextStartTimeRef' = 0 /\ sourcesRef' = {}]_vars

\* The segments that were started and of which neither the end was reported nor
\* a stop was asked.
StartedAndGoing == {i \in 1..Len(sched) : i \notin endedSrc /\ i \notin stoppedSrc}

\* C22: within a session the watermark decreases only when an interruption resets
\* it to zero; an inbound audio message leaves it at least where it was, at its
\* entry and when its segment is scheduled; the segment set holds exactly the
\* segments started and neither ended nor stopped by an interruption or teardown.
C22_WatermarkMonotoneSetExact ==
    [][/\ nextStartTimeRef' < nextStartTimeRef =>
              nextStartTimeRef' = 0 /\ epoch' = epoch + 1
       /\ \A m \in PlaybackMsgs :
              (m.audio > 0 /\ ~m.intr /\ OnMessage(1, m)) =>
                  nextStartTimeRef' >= nextStartTimeRef
       /\ \A d \in decoding :
              (~d.intr /\ DecodeDone(d)) => nextStartTimeRef' >= nextStartTimeRef + d.dur
       /\ sourcesRef' = StartedAndGoing']_vars

\* C22 witness: after an interruption reset the watermark a later segment was
\* scheduled and is in the set, one segment was stopped and one has ended.
C22_Witness ==
    /\ epoch >= 1
    /\ nextStartTimeRef > 0
    /\ sourcesRef # {}
    /\ stoppedSrc # {}
    /\ endedSrc # {}

\* The detail page is in the ready sub-state: not loading, narration audio loaded.
ReadySubState == View = "detail" /\ ~isAudioLoading /\ audioBufferRef # 0

\* C23: in the ready sub-state the loaded audio is the answer to the synthesis
\* request for the selected place and the chosen language, and while the request
\* for the current selection is in flight the narration-loading flag is set, in
\* whatever order the answers of successive requests arrive.
C23_ReadyAudioIsCurrent ==
    /\ ReadySubState =>
           /\ synth[audioBufferRef].place = selectedPlace.name
           /\ synth[audioBufferRef].text = selectedPlace.description
           /\ synth[audioBufferRef].lang = audioLanguage
    /\ (View = "detail" /\ synth[Len(synth)].state \in {"pending", "decoding"}) =>
           isAudioLoading

\* C23, while a single synthesis request was issued: the ready sub-state shows
\* its audio and the flag is set while it is in flight.
C23_SingleRequestIsCurrent ==
    Len(synth) = 1 =>
        /\ ReadySubState =>
               /\ audioBufferRef = 1
               /\ synth[1].place = selectedPlace.name
               /\ synth[1].lang = audioLanguage
        /\ (View = "detail" /\ synth[1].state \in {"pending", "decoding"}) => isAudioLoading

\* Segment i was carried by a message received before an interruption that was
\* processed before the segment was scheduled.
ScheduledStale(i) == sched[i].entryEpoch < sched[i].epoch

\* C24: once an interruption was processed no segment of a message received
\* before it starts playing (also when its decoding was pending at that time) or
\* continues playing, and a segment whose decoding ends after teardown is neither
\* started nor added to the segment set.
C24_NoStaleSegmentPlays ==
    [][/\ \A i \in 1..Len(sched') :
              /\ ScheduledStale(i)' => i \in stoppedSrc'
              /\ sched'[i].epoch < epoch' => i \in stoppedSrc' \cup endedSrc'
       /\ Len(sched') > Len(sched) => outputAudioContextRef # 0]_vars

\* C24, for the segments that are scheduled when the signal or the teardown is
\* processed: an interruption and a teardown stop every segment of the set and
\* empty it.
C24_ScheduledSegmentsStopped ==
    [][/\ \A i \in 1..Len(sched') :
              sched'[i].epoch < epoch' => i \in stoppedSrc' \cup endedSrc'
       /\ (outputAudioContextRef # 0 /\ outputAudioContextRef' = 0) =>
              sourcesRef \subseteq stoppedSrc' /\ sourcesRef' = {}]_vars


\* ------------------------------------------------------------------- C25

\* Leaving the converse view runs stopConversation(): the session is marked
\* inactive and, according to the state of the held session promise, the
\* resources are released at once or the call waits for the promise.
LeavingRunsStopPath ==
    (ConverseShown /\ DiscoverShown') =>
        /\ ~isSessionActive'
        /\ sessionPromiseRef = 0 =>
              /\ mediaStreamRef' = 0
              /\ audioContextRef' = 0
              /\ outputAudioContextRef' = 0
              /\ mediaStreamRef \notin liveTracks'
        /\ (sessionPromiseRef # 0 /\ prom[sessionPromiseRef] = "pending") =>
              sessionPromiseRef \in stopAwait'
        /\ (sessionPromiseRef # 0 /\ prom[sessionPromiseRef] # "pending") =>
              /\ sessionPromiseRef' = 0
              /\ mediaStreamRef' = 0
              /\ mediaStreamRef \notin liveTracks'

\* C25: exactly one of the two views is shown at any time, starting with
\* discover; leaving the converse view at any point of the session lifecycle runs
\* the conversation stop path, and once all pending callbacks have settled no
\* live session is open and no microphone track is live while the converse view
\* is not shown.
C25_OneViewLeavingStopsAll ==
    /\ DiscoverShown
    /\ [](DiscoverShown # ConverseShown)
    /\ [][LeavingRunsStopPath]_vars
    /\ []((~ConverseShown /\ Settled) => (LiveSessions = {} /\ liveTracks = {}))

\* The part of C25 that holds: one view at a time, discover first, and every
\* leave runs the stop path.
C25_OneViewLeavingStops ==
    /\ DiscoverShown
    /\ [](DiscoverShown # ConverseShown)
    /\ [][LeavingRunsStopPath]_vars


\* ------------------------------------------------------------------- C26

\* A search of the shown DiscoverView finishes in this step: its loading flag is
\* cleared by the search itself, not by a new view.
SearchFinishes == isLoading /\ ~isLoading' /\ nMounts' = nMounts

\* Results are set: the place list is not null.
ResultsSet == ~places.null

\* An error is set: the message is not null.
ErrorSet == errorD # NoError

\* C26: every search that is started eventually leaves the loading state, when
\* the geolocation and discovery calls settle; when a search has finished, exactly
\* one of results and error is set; and while loading is set the loader is shown
\* and none of the list, the detail page, the error panel and the search form.
C26_SearchEndsResultsXorError ==
    /\ isLoading ~> ~isLoading
    /\ [][SearchFinishes => (ResultsSet' # ErrorSet')]_vars
    /\ [](isLoading => (View = "loading" /\ View \notin {"list", "detail", "error", "form"}))

\* C26 witness: a first search failed and its error was dismissed, a second search
\* finished with a place list; nothing is loading.
C26_Witness ==
    /\ nMounts = 0
    /\ Len(search) = 2
    /\ search[1].state = "failed"
    /\ search[2].state = "done"
    /\ ~isLoading
    /\ ResultsSet
    /\ ~ErrorSet


\* ------------------------------------------------------------------- C27

\* Start k fails in this step after its microphone stream was acquired: a
\* timeline or the output node could not be created (the catch runs), or the
\* session request is rejected.
TimelineFails(k) == startPc[k] = "gum" /\ startPc'[k] = "ctxFailed"
RequestRejected(k) == prom[k] = "pending" /\ prom'[k] = "rejected"

\* After the step the conversation is idle with an error shown, and start k
\* holds no live microphone track and no open audio timeline.
IdleWithErrorNothingHeld(k) ==
    /\ ~isSessionActive'
    /\ error' # NoError
    /\ k \notin liveTracks'
    /\ k \notin openInCtx'
    /\ k \notin openOutCtx'

\* C27: when starting a conversation fails at a step after the microphone stream
\* was acquired (creating a timeline or the output node, or a rejected session
\* request, also without the error callback), then once the failure is handled
\* the conversation is idle with an error shown and holds no live microphone track
\* and no open audio timeline.
C27_FailedStartReleasesAll ==
    [][\A k \in Starts :
          (TimelineFails(k) \/ RequestRejected(k)) => IdleWithErrorNothingHeld(k)]_vars

\* The part of C27 that holds: a failed timeline or output node is caught, the
\* start-failure message is shown and no session is requested for that start.
C27_FailedTimelineShowsError ==
    [][\A k \in Starts :
          TimelineFails(k) => (error' = StartFailedMsg /\ sess'[k] = "none" /\ prom'[k] = "none")]_vars

=============================================================================
